---------------------------- MODULE Spec2Model ----------------------------
(***************************************************************************)
(* A model of rlox: the tree path (Scanner::scan, Parser::parse,           *)
(* Resolver::resolve, Interpreter::interpret, glued by treewalk Lox::run)  *)
(* and the bytecode path (Scanner::scan_token, Compiler::compile,          *)
(* VMInterpreter::run, glued by VM::interpret).                            *)
(*                                                                         *)
(* A source text is a sequence of one-character strings.  Offsets are      *)
(* 0-based as in the Rust code; Ch(src, i) reads the character at offset i.*)
(* Only ASCII is modelled, so byte offsets and character counts coincide.  *)
(* Numbers are exact fractions <<p, q>> (q = 0 encodes inf/-inf/NaN), not  *)
(* 64-bit floats: rounding, overflow and negative zero are not modelled.   *)
(* The bytecode path is modelled for a release build (the                  *)
(* cfg(debug_assertions) tracing blocks are compiled out).                 *)
(*                                                                         *)
(* The same text is run on the tree path and then on the bytecode path;    *)
(* the two share no state, so the order between them is immaterial.  Two   *)
(* histories are kept that the code does not have: chunk.emitted, the      *)
(* offsets at which the compiler wrote an opcode, and trace, the ip of     *)
(* every turn of the dispatch loop.                                        *)
(*                                                                         *)
(* The specifications share the variables.  Spec runs whole programs on    *)
(* both paths; SpecScan runs the tree-path scanner on short texts;         *)
(* SpecTokens runs both scanners on short texts, the bytecode scanner call *)
(* by call (btokens is the history of what the calls returned); SpecVM     *)
(* runs the dispatch loop on chunks assembled with the Chunk interface;    *)
(* SpecEval runs Interpreter::interpret on statement lists built directly; *)
(* SpecResolve runs Resolver::resolve and then the interpreter on          *)
(* statement lists; SpecParse scans and parses for statements; SpecCompile *)
(* compiles and runs texts on the bytecode path alone; SpecEnv applies     *)
(* Environment::get_at, update_at and update to chains of environments;    *)
(* SpecSync runs both paths on texts with syntax errors; SpecPool writes   *)
(* one constant to pools of many sizes and runs the chunk; FairSpecParse   *)
(* scans and parses texts of short statements, the loop of Parser::parse   *)
(* taking its turns.                                                       *)
(*                                                                         *)
(* A function of the code that binds a value and goes on with it is        *)
(* written as a local operator applied to that value.                      *)
(***************************************************************************)
EXTENDS Integers, Sequences, FiniteSets, TLC

VARIABLES
    input,       \* the program text as it was put together (never changes)
    source,      \* the program text handed to Lox::run / VM::interpret
    pc,          \* tree path: position in Lox::run
    tokens,      \* tree path: Vec<TokenItem> returned by Scanner::scan
    scanErrors,  \* tree path: Vec<scanner::Error> collected by Scanner::scan
    pCursor,     \* Parser::parse: cursor
    statements,  \* Parser::parse: statements
    parseErrors, \* Parser::parse: errors
    rScopes,     \* Resolver::resolve: scopes
    rLocals,     \* Resolver::resolve: res, later Interpreter.locals
    resolved,    \* Resolver::resolve: statements resolved so far
    iHeap,       \* the Environments alive; environment 1 is the global one
    executed,    \* Interpreter::interpret: statements executed so far
    iRes,        \* Interpreter::interpret: res
    out,         \* tree path: lines written to stdout, [by, text]
    result,      \* tree path: what Lox::run returned ("" while running)
    bpc,         \* bytecode path: position in VM::interpret
    parser,      \* Compiler::compile: parser, with the chunk it writes
    vmIp,        \* VMInterpreter::run: ip
    vmStack,     \* VMInterpreter::run: self.stack
    vmGlobals,   \* VM.globals
    vout,        \* bytecode path: lines written to stdout, [by, text]
    trace,       \* history: the ip of every turn of the dispatch loop
    bresult,     \* bytecode path: what VM::interpret returned
    scanner,     \* a bytecode Scanner driven call by call: [sc, panic]
    btokens      \* history: what each call of scan_token returned

treeVars ==
    <<pc, tokens, scanErrors, pCursor, statements, parseErrors, rScopes,
      rLocals, resolved, iHeap, executed, iRes, out, result>>

byteVars == <<bpc, parser, vmIp, vmStack, vmGlobals, vout, trace, bresult>>

scanVars == <<scanner, btokens>>

vars == <<input, source, treeVars, byteVars, scanVars>>

-----------------------------------------------------------------------------
(* Characters *)

Digit == {"0", "1", "2", "3", "4", "5", "6", "7", "8", "9"}

Alpha ==
    {"a", "b", "c", "d", "e", "f", "g", "h", "i", "j", "k", "l", "m",
     "n", "o", "p", "q", "r", "s", "t", "u", "v", "w", "x", "y", "z",
     "A", "B", "C", "D", "E", "F", "G", "H", "I", "J", "K", "L", "M",
     "N", "O", "P", "Q", "R", "S", "T", "U", "V", "W", "X", "Y", "Z"}

NoChar == "EOF"

\* the character at 0-based offset i, NoChar past the end
Ch(src, i) == IF i >= 0 /\ i < Len(src) THEN src[i + 1] ELSE NoChar

\* &input[lo..hi]
Slice(src, lo, hi) == SubSeq(src, lo + 1, hi)

-----------------------------------------------------------------------------
(* SourceLocation *)

Loc(l, p) == [line |-> l, pos |-> p]

advance_by(loc, count) == Loc(loc.line, loc.pos + count)

newline(loc) == Loc(loc.line + 1, 0)

\* Faulty variant of merge: the column is not reset when lines were crossed.
merge_keeps_column(loc, other) ==
    Loc(loc.line + other.line, loc.pos + other.pos)

merge(loc, other) ==
    Loc(loc.line + other.line,
        IF other.line > 0 THEN other.pos ELSE loc.pos + other.pos)

-----------------------------------------------------------------------------
(* Literal values.  Every value is a record [t, v]; compare t before v.    *)

NoLit == [t |-> "None", v |-> <<>>]

LNil == [t |-> "Nil", v |-> <<>>]

LBool(b) == [t |-> IF b THEN "True" ELSE "False", v |-> <<>>]

LString(s) == [t |-> "String", v |-> s]

RECURSIVE Gcd(_, _)
Gcd(a, b) == IF b = 0 THEN a ELSE Gcd(b, a % b)

Abs(n) == IF n < 0 THEN 0 - n ELSE n

Sign(n) == IF n < 0 THEN 0 - 1 ELSE IF n > 0 THEN 1 ELSE 0

\* the f64 p/q in lowest terms with q >= 0; <<1,0>> inf, <<-1,0>> -inf, <<0,0>> NaN
Frac(p, q) ==
    IF q = 0 THEN <<Sign(p), 0>>
    ELSE LET g == Gcd(Abs(p), Abs(q))
         IN  <<(Sign(q) * p) \div g, Abs(q) \div g>>

LNumber(p, q) == [t |-> "Number", v |-> Frac(p, q)]

DigitChars == <<"0", "1", "2", "3", "4", "5", "6", "7", "8", "9">>

DigitVal(c) == (CHOOSE i \in 1..10 : DigitChars[i] = c) - 1

RECURSIVE Pow10(_)
Pow10(n) == IF n = 0 THEN 1 ELSE 10 * Pow10(n - 1)

RECURSIVE DigitsVal(_)
DigitsVal(s) ==
    IF s = <<>> THEN 0
    ELSE DigitsVal(SubSeq(s, 1, Len(s) - 1)) * 10 + DigitVal(s[Len(s)])

\* lexeme.parse::<f64>() of digits, optionally "." and more digits
ParseF64(lexeme) ==
    LET dots == {i \in 1..Len(lexeme) : lexeme[i] = "."}
    IN  IF dots = {} THEN LNumber(DigitsVal(lexeme), 1)
        ELSE LET d == CHOOSE i \in dots : TRUE
                 ip == SubSeq(lexeme, 1, d - 1)
                 fp == SubSeq(lexeme, d + 1, Len(lexeme))
             IN  LNumber(DigitsVal(ip \o fp), Pow10(Len(fp)))

-----------------------------------------------------------------------------
(* Tree path: token.rs and scanner.rs                                      *)

\* TokenType::from_string
from_string(s) ==
    CASE s = <<"a", "n", "d">> -> "And"
      [] s = <<"c", "l", "a", "s", "s">> -> "Class"
      [] s = <<"e", "l", "s", "e">> -> "Else"
      [] s = <<"f", "a", "l", "s", "e">> -> "False"
      [] s = <<"f", "u", "n">> -> "Fun"
      [] s = <<"f", "o", "r">> -> "For"
      [] s = <<"i", "f">> -> "If"
      [] s = <<"n", "i", "l">> -> "Nil"
      [] s = <<"o", "r">> -> "Or"
      [] s = <<"p", "r", "i", "n", "t">> -> "Print"
      [] s = <<"r", "e", "t", "u", "r", "n">> -> "Return"
      [] s = <<"s", "u", "p", "e", "r">> -> "Super"
      [] s = <<"t", "h", "i", "s">> -> "This"
      [] s = <<"t", "r", "u", "e">> -> "True"
      [] s = <<"v", "a", "r">> -> "Var"
      [] s = <<"w", "h", "i", "l", "e">> -> "While"
      [] OTHER -> "None"

\* a TokenItem whose lexeme is &input[lo..hi]
TokenItem(ttype, src, lo, hi, literal, location) ==
    [ttype |-> ttype, lexeme |-> Slice(src, lo, hi), lo |-> lo, hi |-> hi,
     literal |-> literal, location |-> location]

\* MultiPeek::peek with `pos` characters consumed and peek index `k`:
\* the character k places after the next one
MPeek(src, pos, k) == Ch(src, pos + k)

\* Offset::offset: chars.peek().map(|(i, _)| *i).unwrap_or(max)
\* Faulty variant of Offset: the slice end is one character too far.
Offset_one_too_far(src, pos, k) ==
    IF pos + k + 1 < Len(src) THEN pos + k + 1 ELSE Len(src)

Offset(src, pos, k) == IF pos + k < Len(src) THEN pos + k ELSE Len(src)

\* the `//` loop: while !matches!(chars.peek(), Some((_, '\n')) | None);
\* k is the peek index left by earlier peeks, chars.next() resets it
RECURSIVE LineComment(_, _, _, _)
LineComment(src, pos, k, increment) ==
    IF MPeek(src, pos, k) \in {"\n", NoChar}
    THEN [pos |-> pos, increment |-> increment]
    ELSE LineComment(src, pos + 1, 0, increment + 1)

\* Scanner::parse_multiline_comment; ok = FALSE is None
RECURSIVE parse_multiline_comment(_, _, _, _, _)
parse_multiline_comment(src, pos, increment, comment_level, move_by) ==
    IF pos >= Len(src)
    THEN [ok |-> comment_level = 0, pos |-> pos,
          move_by |-> advance_by(move_by, increment)]
    ELSE LET c2 == Ch(src, pos)
             inc == increment + 1
         IN  IF c2 = "/" /\ MPeek(src, pos + 1, 0) = "*"
             THEN parse_multiline_comment(src, pos + 2, inc + 1,
                                          comment_level + 1, move_by)
             ELSE IF c2 = "*" /\ MPeek(src, pos + 1, 0) = "/"
             THEN IF comment_level - 1 = 0
                  THEN [ok |-> TRUE, pos |-> pos + 2,
                        move_by |-> advance_by(move_by, inc + 1)]
                  ELSE parse_multiline_comment(src, pos + 2, inc + 1,
                                               comment_level - 1, move_by)
             ELSE IF c2 = "\n"
             THEN parse_multiline_comment(src, pos + 1, 0, comment_level,
                                          newline(move_by))
             ELSE parse_multiline_comment(src, pos + 1, inc, comment_level,
                                          move_by)

\* Scanner::parse_string; ok = FALSE is None
RECURSIVE parse_string(_, _, _, _, _)
parse_string(src, pos, increment, string, move_by) ==
    IF pos >= Len(src)
    THEN [ok |-> FALSE, pos |-> pos, string |-> string, move_by |-> move_by]
    ELSE LET c2 == Ch(src, pos)
             inc == increment + 1
         IN  IF c2 = "\""
             THEN [ok |-> TRUE, pos |-> pos + 1, string |-> string,
                   move_by |-> advance_by(move_by, inc)]
             ELSE IF c2 = "\n"
             THEN parse_string(src, pos + 1, 0, Append(string, c2),
                               newline(move_by))
             ELSE parse_string(src, pos + 1, inc, Append(string, c2), move_by)

\* Scanner::parse_number: (end, increment); the peek index is 0 at each turn
RECURSIVE parse_number(_, _, _, _)
parse_number(src, pos, increment, has_dot) ==
    LET c2 == MPeek(src, pos, 0)
        done == [pos |-> pos, end |-> Offset(src, pos, 0),
                 increment |-> increment]
    IN  IF c2 = NoChar THEN done
        ELSE IF c2 \in Digit
        THEN parse_number(src, pos + 1, increment + 1, has_dot)
        ELSE IF c2 = "."
        THEN IF has_dot THEN done
             ELSE IF MPeek(src, pos, 1) \notin Digit THEN done
             ELSE parse_number(src, pos + 2, increment + 2, TRUE)
        ELSE done

\* Scanner::parse_varchar: (end, increment)
RECURSIVE parse_varchar(_, _, _)
parse_varchar(src, pos, increment) ==
    LET c2 == MPeek(src, pos, 0)
    IN  IF c2 \in Alpha \cup Digit \cup {"_"}
        THEN parse_varchar(src, pos + 1, increment + 1)
        ELSE [pos |-> pos, end |-> Offset(src, pos, 0), increment |-> increment]

ScanError(kind, location) == [kind |-> kind, location |-> location]

\* one turn of `while let Some(ci) = chars.next()` in Scanner::scan, from the
\* match on ci.1 to location.advance_by(increment); st.pos < Len(src)
ScanStep(src, st) ==
    LET ci0 == st.pos
        c == Ch(src, ci0)
        p1 == ci0 + 1                       \* characters consumed after next()
        location == st.location
        c2 == MPeek(src, p1, 0)
        \* what one arm yields: the cursor, the pushed tokens and errors,
        \* the location before advance_by, and increment
        Arm(pos, toks, errs, loc, increment) ==
            [pos |-> pos, tokens |-> st.tokens \o toks,
             errors |-> st.errors \o errs,
             location |-> advance_by(loc, increment)]
        Basic(ttype) ==
            Arm(p1, <<TokenItem(ttype, src, ci0, Offset(src, p1, 0), NoLit,
                                location)>>, <<>>, location, 1)
        OneOrTwo(one, two) ==
            IF c2 = "="
            THEN Arm(p1 + 1,
                     <<TokenItem(two, src, ci0, Offset(src, p1 + 1, 0), NoLit,
                                 location)>>, <<>>, location, 2)
            ELSE Arm(p1, <<TokenItem(one, src, ci0, Offset(src, p1, 0), NoLit,
                                     location)>>, <<>>, location, 1)
    IN  CASE c = "(" -> Basic("LeftParen")
          [] c = ")" -> Basic("RightParen")
          [] c = "{" -> Basic("LeftBrace")
          [] c = "}" -> Basic("RightBrace")
          [] c = "," -> Basic("Comma")
          [] c = "." -> Basic("Dot")
          [] c = "-" -> Basic("Minus")
          [] c = "+" -> Basic("Plus")
          [] c = ";" -> Basic("Semicolon")
          [] c = "*" -> Basic("Star")
          [] c = "!" -> OneOrTwo("Bang", "BangEq")
          [] c = "=" -> OneOrTwo("Equal", "EqualEq")
          [] c = ">" -> OneOrTwo("Greater", "GreaterEq")
          [] c = "<" -> OneOrTwo("Less", "LessEq")
          [] c = "/" ->
                IF c2 = "/"
                THEN LET r == LineComment(src, p1, 1, 1)
                     IN  Arm(r.pos, <<>>, <<>>, location, r.increment)
                ELSE IF c2 = "*"
                THEN LET r == parse_multiline_comment(src, p1, 1, 1, Loc(0, 0))
                     IN  IF r.ok
                         THEN Arm(r.pos, <<>>, <<>>, merge(location, r.move_by), 0)
                         ELSE Arm(r.pos, <<>>,
                                  <<ScanError("UnterminatedComment", location)>>,
                                  location, 1)
                ELSE Arm(p1, <<TokenItem("Slash", src, ci0, Offset(src, p1, 0),
                                         NoLit, location)>>, <<>>, location, 1)
          [] c = "\"" ->
                LET r == parse_string(src, p1, 1, <<>>, Loc(0, 0))
                IN  IF r.ok
                    THEN Arm(r.pos,
                             <<TokenItem("String", src, ci0, Offset(src, r.pos, 0),
                                         LString(r.string), location)>>, <<>>,
                             merge(location, r.move_by), 0)
                    ELSE Arm(r.pos, <<>>,
                             <<ScanError("UnterminatedString", location)>>,
                             location, 1)
          [] c \in Digit ->
                LET r == parse_number(src, p1, 0, FALSE)
                IN  Arm(r.pos,
                        <<TokenItem("Number", src, ci0, r.end,
                                    ParseF64(Slice(src, ci0, r.end)), location)>>,
                        <<>>, location, 1 + r.increment)
          [] c \in Alpha \cup {"_"} ->
                LET r == parse_varchar(src, p1, 0)
                    kw == from_string(Slice(src, ci0, r.end))
                    ttype == IF kw = "None" THEN "Identifier" ELSE kw
                    literal == CASE kw = "True" -> LBool(TRUE)
                                 [] kw = "False" -> LBool(FALSE)
                                 [] kw = "Nil" -> LNil
                                 [] OTHER -> NoLit
                IN  Arm(r.pos,
                        <<TokenItem(ttype, src, ci0, r.end, literal, location)>>,
                        <<>>, location, 1 + r.increment)
          [] c = "\n" -> Arm(p1, <<>>, <<>>, newline(location), 0)
          [] c \in {" ", "\r", "\t"} -> Arm(p1, <<>>, <<>>, location, 1)
          [] OTHER ->
                Arm(p1, <<>>, <<ScanError("UnexpectedCharacter", location)>>,
                    location, 1)

RECURSIVE ScanLoop(_, _)
ScanLoop(src, st) ==
    IF st.pos >= Len(src) THEN st ELSE ScanLoop(src, ScanStep(src, st))

\* Scanner::scan: Ok(tokens) when errors is empty, else Err(errors)
Scan(src) ==
    LET st == ScanLoop(src, [pos |-> 0, tokens |-> <<>>, errors |-> <<>>,
                             location |-> Loc(1, 0)])
        eof == [ttype |-> "EoF", lexeme |-> <<>>, lo |-> Len(src),
                hi |-> Len(src), literal |-> NoLit, location |-> st.location]
    IN  [ok |-> st.errors = <<>>, tokens |-> Append(st.tokens, eof),
         errors |-> st.errors]

-----------------------------------------------------------------------------
(* The tree-path parser.  Every parse function returns (result, cursor);   *)
(* here [st, v, cursor] with st = "Ok" (v the node), "Err" (v the error)   *)
(* or "Panic" (tokens[cursor] indexed past the end of the slice).          *)

POk(v, c) == [st |-> "Ok", v |-> v, cursor |-> c]

PErr(kind, location, c) ==
    [st |-> "Err", v |-> [kind |-> kind, location |-> location], cursor |-> c]

PPanic == [st |-> "Panic", v |-> <<>>, cursor |-> 0]

\* tokens[c]: the model's sequences are 1-based
Tk(ts, c) == ts[c + 1]

\* the result r of code that first indexes tokens[c]
Indexing(ts, c, r) == IF c >= Len(ts) THEN PPanic ELSE r

NoExpr == [k |-> "None"]

NoStmt == [k |-> "None"]

ELiteral(location, value) ==
    [k |-> "Literal", location |-> location, value |-> value]

EVariable(location, name) ==
    [k |-> "Variable", location |-> location, name |-> name]

EAssignment(location, name, value) ==
    [k |-> "Assignment", location |-> location, name |-> name,
     value |-> value]

EUnary(location, operator, right) ==
    [k |-> "Unary", location |-> location, operator |-> operator,
     right |-> right]

EBinary(location, left, operator, right) ==
    [k |-> "Binary", location |-> location, left |-> left,
     operator |-> operator, right |-> right]

ECall(location, callee, arguments) ==
    [k |-> "Call", location |-> location, callee |-> callee,
     arguments |-> arguments]

RECURSIVE expression(_, _), assignment(_, _), binary_expr(_, _, _),
          binary_while(_, _, _, _), unary(_, _), call(_, _),
          call_while(_, _, _), call_arguments(_, _, _),
          call_commas(_, _, _), primary(_, _)

\* the $pattern of each use of binary_expr!
BinaryPattern(level) ==
    CASE level = "equality" -> {"BangEq", "EqualEq"}
      [] level = "comparison" -> {"Greater", "GreaterEq", "Less", "LessEq"}
      [] level = "term" -> {"Minus", "Plus"}
      [] level = "factor" -> {"Slash", "Star"}

\* the $next of each use of binary_expr!
BinaryNext(level, ts, c) ==
    CASE level = "equality" -> binary_expr("comparison", ts, c)
      [] level = "comparison" -> binary_expr("term", ts, c)
      [] level = "term" -> binary_expr("factor", ts, c)
      [] level = "factor" -> unary(ts, c)

\* the while loop of binary_expr!
binary_while(level, ts, left, new_cursor) ==
    Indexing(ts, new_cursor,
        IF Tk(ts, new_cursor).ttype \notin BinaryPattern(level)
        THEN POk(left, new_cursor)
        ELSE LET operator == Tk(ts, new_cursor).ttype
                 right(r) ==
                     IF r.st = "Panic" THEN r
                     ELSE IF r.st = "Err" THEN [r EXCEPT !.cursor = new_cursor]
                     ELSE Indexing(ts, r.cursor,
                            binary_while(level, ts,
                                EBinary(Tk(ts, r.cursor).location, left,
                                        operator, r.v),
                                r.cursor))
             IN  right(BinaryNext(level, ts, new_cursor + 1)))

binary_expr(level, ts, c) ==
    LET left(r) ==
            IF r.st # "Ok" THEN r ELSE binary_while(level, ts, r.v, r.cursor)
    IN  left(BinaryNext(level, ts, c))

equality(ts, c) == binary_expr("equality", ts, c)

comparison(ts, c) == binary_expr("comparison", ts, c)

term(ts, c) == binary_expr("term", ts, c)

factor(ts, c) == binary_expr("factor", ts, c)

expression(ts, c) == assignment(ts, c)

assignment(ts, c) ==
    LET value(e, assignment_location, r) ==
            IF r.st # "Ok" THEN r
            ELSE IF e.v.k = "Variable"
            THEN POk(EAssignment(e.v.location, e.v.name, r.v), r.cursor)
            ELSE PErr("InvalidAssignmentTarget", assignment_location, r.cursor)
        target(e) ==
            IF e.st # "Ok" THEN e
            ELSE Indexing(ts, e.cursor,
                   IF Tk(ts, e.cursor).ttype # "Equal" THEN e
                   ELSE value(e, Tk(ts, e.cursor).location,
                              expression(ts, e.cursor + 1)))
    IN  target(equality(ts, c))

unary(ts, c) ==
    Indexing(ts, c,
        IF Tk(ts, c).ttype \in {"Bang", "Minus"}
        THEN LET operand(r) ==
                     IF r.st # "Ok" THEN r
                     ELSE POk(EUnary(Tk(ts, c).location, Tk(ts, c).ttype,
                                     r.v),
                              r.cursor)
             IN  operand(unary(ts, c + 1))
        ELSE call(ts, c))

\* the inner `while ... Comma` loop of call; a = [arguments, cursor]
call_commas(ts, arguments, c) ==
    IF c < Len(ts) /\ Tk(ts, c).ttype = "Comma"
    THEN IF Len(arguments) >= 255
         THEN PErr("TooManyArguments", Tk(ts, c).location, c)
         ELSE LET argument(r) ==
                      IF r.st # "Ok" THEN r
                      ELSE call_commas(ts, Append(arguments, r.v), r.cursor)
              IN  argument(expression(ts, c + 1))
    ELSE POk(arguments, c)

\* the `while ... !RightParen | EoF` loop of call
call_arguments(ts, arguments, c) ==
    IF c < Len(ts) /\ Tk(ts, c).ttype \notin {"RightParen", "EoF"}
    THEN LET rest(a) ==
                 IF a.st # "Ok" THEN a ELSE call_arguments(ts, a.v, a.cursor)
             first(r) ==
                 IF r.st # "Ok" THEN r
                 ELSE rest(call_commas(ts, Append(arguments, r.v), r.cursor))
         IN  first(expression(ts, c))
    ELSE POk(arguments, c)

\* the outer while loop of call
call_while(ts, callee, c) ==
    IF c < Len(ts) - 1 /\ Tk(ts, c).ttype = "LeftParen"
    THEN Indexing(ts, c + 1,
           LET closing(a) ==
                   IF a.st # "Ok" THEN a
                   ELSE Indexing(ts, a.cursor,
                          IF Tk(ts, a.cursor).ttype # "RightParen"
                          THEN PErr("UnterminatedParen",
                                    Tk(ts, a.cursor).location, a.cursor)
                          ELSE call_while(ts,
                                 ECall(Tk(ts, a.cursor).location, callee,
                                       a.v),
                                 a.cursor + 1))
           IN  closing(IF Tk(ts, c + 1).ttype # "RightParen"
                       THEN call_arguments(ts, <<>>, c + 1)
                       ELSE POk(<<>>, c + 1)))
    ELSE POk(callee, c)

call(ts, c) ==
    LET callee(r) == IF r.st # "Ok" THEN r ELSE call_while(ts, r.v, r.cursor)
    IN  callee(primary(ts, c))

primary(ts, c) ==
    Indexing(ts, c,
      LET t == Tk(ts, c)
      IN  CASE t.ttype \in {"Number", "String", "True", "False", "Nil"} ->
                 IF t.literal.t = "None" THEN PPanic
                 ELSE POk(ELiteral(t.location, t.literal), c + 1)
            [] t.ttype = "Identifier" ->
                 POk(EVariable(t.location, t.lexeme), c + 1)
            [] t.ttype = "LeftParen" ->
                 LET grouping(r) ==
                         IF r.st # "Ok" THEN r
                         ELSE Indexing(ts, r.cursor,
                                IF Tk(ts, r.cursor).ttype = "RightParen"
                                THEN POk(r.v, r.cursor + 1)
                                ELSE PErr("UnterminatedParen", t.location,
                                          r.cursor))
                 IN  grouping(equality(ts, c + 1))
            [] OTHER ->
                 [st |-> "Err",
                  v |-> [kind |-> "UnexpectedToken", location |-> t.location,
                         lexeme |-> t.lexeme],
                  cursor |-> c])


SExpression(expr) == [k |-> "Expression", expr |-> expr]

SPrint(expr) == [k |-> "Print", expr |-> expr]

SVarDecl(name, location, initializer) ==
    [k |-> "VarDecl", name |-> name, location |-> location,
     initializer |-> initializer]

SIf(condition, then_branch, else_branch) ==
    [k |-> "If", condition |-> condition, then_branch |-> then_branch,
     else_branch |-> else_branch]

SWhile(condition, body) ==
    [k |-> "While", condition |-> condition, body |-> body]

SBlock(stmts) == [k |-> "Block", stmts |-> stmts]

SFunDecl(name, params, body) ==
    [k |-> "FunDecl", name |-> name, params |-> params, body |-> body]

SReturn(expr) == [k |-> "Return", expr |-> expr]

\* Error::ExpectedToken { expected, stmt_type, location }
ExpectedToken(expected, stmt_type, location, c) ==
    [st |-> "Err",
     v |-> [kind |-> "ExpectedToken", location |-> location,
            expected |-> expected, stmt_type |-> stmt_type],
     cursor |-> c]

\* Error::UnexpectedToken { lexeme, location } at tokens[c]
UnexpectedToken(ts, c) ==
    [st |-> "Err",
     v |-> [kind |-> "UnexpectedToken", location |-> Tk(ts, c).location,
            lexeme |-> Tk(ts, c).lexeme],
     cursor |-> c]

\* the tail shared by expr_stmt, return_stmt and print_stmt: e is the parsed
\* expression, wrap the statement constructor
SemicolonAfter(ts, e, wrap(_)) ==
    IF e.st = "Panic" THEN e
    ELSE Indexing(ts, e.cursor,
           IF Tk(ts, e.cursor).ttype = "Semicolon"
           THEN IF e.st = "Ok" THEN POk(wrap(e.v), e.cursor + 1)
                ELSE [e EXCEPT !.cursor = e.cursor + 1]
           ELSE PErr("ExpectedSemicolon", Tk(ts, e.cursor).location,
                     e.cursor))

RECURSIVE statement(_, _), if_stmt(_, _), while_stmt(_, _), for_stmt(_, _),
          fun_stmt(_, _), block(_, _), block_while(_, _, _)

expr_stmt(ts, c) == SemicolonAfter(ts, expression(ts, c), SExpression)

return_stmt(ts, c) ==
    Indexing(ts, c,
        IF Tk(ts, c).ttype = "Semicolon"
        THEN POk(SReturn(ELiteral(Tk(ts, c).location, LNil)), c + 1)
        ELSE SemicolonAfter(ts, expression(ts, c), SReturn))

print_stmt(ts, c) == SemicolonAfter(ts, equality(ts, c), SPrint)

var_decl(ts, c) ==
    Indexing(ts, c,
      IF Tk(ts, c).ttype # "Identifier" THEN UnexpectedToken(ts, c)
      ELSE LET name == Tk(ts, c).lexeme
               cursor == c + 1
           IN  Indexing(ts, cursor,
                 CASE Tk(ts, cursor).ttype = "Semicolon" ->
                        POk(SVarDecl(name, Tk(ts, cursor).location, NoExpr),
                            cursor + 1)
                   [] Tk(ts, cursor).ttype = "Equal" ->
                        LET initializer(e) ==
                                IF e.st = "Panic" THEN e
                                ELSE Indexing(ts, e.cursor,
                                  IF Tk(ts, e.cursor).ttype = "Semicolon"
                                  THEN IF e.st = "Ok"
                                       THEN POk(SVarDecl(name,
                                                  Tk(ts, e.cursor).location,
                                                  e.v),
                                                e.cursor + 1)
                                       ELSE [e EXCEPT !.cursor = e.cursor + 1]
                                  ELSE PErr("ExpectedSemicolon",
                                            Tk(ts, e.cursor).location,
                                            e.cursor))
                        IN  initializer(equality(ts, cursor + 1))
                   [] OTHER -> UnexpectedToken(ts, cursor)))

\* the part of if_stmt and while_stmt up to the closing parenthesis:
\* Ok with v the condition and cursor at the token after ')'
ParenCondition(ts, c, stmt_type) ==
    Indexing(ts, c,
      IF Tk(ts, c).ttype # "LeftParen"
      THEN ExpectedToken("(", stmt_type, Tk(ts, c).location, c)
      ELSE LET condition(e) ==
                   IF e.st # "Ok" THEN e
                   ELSE Indexing(ts, e.cursor,
                          IF Tk(ts, e.cursor).ttype # "RightParen"
                          THEN ExpectedToken(")", stmt_type,
                                 Tk(ts, e.cursor).location, e.cursor)
                          ELSE POk(e.v, e.cursor + 1))
           IN  condition(expression(ts, c + 1)))

if_stmt(ts, c) ==
    LET else_branch(p, t, e) ==
            IF e.st # "Ok" THEN e
            \* the inner `cursor` shadows: the outer one is returned, the
            \* token after the then branch
            ELSE POk(SIf(p.v, t.v, e.v), t.cursor)
        then_branch(p, t) ==
            IF t.st # "Ok" THEN t
            ELSE Indexing(ts, t.cursor,
                   IF Tk(ts, t.cursor).ttype = "Else"
                   THEN else_branch(p, t, statement(ts, t.cursor + 1))
                   ELSE POk(SIf(p.v, t.v, NoStmt), t.cursor))
        condition(p) ==
            IF p.st # "Ok" THEN p ELSE then_branch(p, statement(ts, p.cursor))
    IN  condition(ParenCondition(ts, c, "if"))

while_stmt(ts, c) ==
    LET body(p, b) ==
            IF b.st # "Ok" THEN b ELSE POk(SWhile(p.v, b.v), b.cursor)
        condition(p) ==
            IF p.st # "Ok" THEN p ELSE body(p, statement(ts, p.cursor))
    IN  condition(ParenCondition(ts, c, "while"))


for_stmt(ts, c) ==
    Indexing(ts, c,
      IF Tk(ts, c).ttype # "LeftParen"
      THEN ExpectedToken("(", "for", Tk(ts, c).location, c)
      ELSE LET c1 == c + 1
               increment_clause(e) ==
                   IF e.st # "Ok" THEN e
                   ELSE Indexing(ts, e.cursor,
                          IF Tk(ts, e.cursor).ttype # "RightParen"
                          THEN ExpectedToken(")", "for",
                                 Tk(ts, e.cursor).location, e.cursor)
                          ELSE POk(SExpression(e.v), e.cursor + 1))
               condition_clause(e) ==
                   IF e.st # "Ok" THEN e
                   ELSE Indexing(ts, e.cursor,
                          IF Tk(ts, e.cursor).ttype # "Semicolon"
                          THEN PErr("ExpectedSemicolon",
                                    Tk(ts, e.cursor).location, e.cursor)
                          ELSE POk(e.v, e.cursor + 1))
               for_loop(initializer, cond, body) ==
                   IF initializer.v.k # "None"
                   THEN SBlock(<<initializer.v, SWhile(cond, body)>>)
                   ELSE SWhile(cond, body)
               with_body(initializer, cond, increment, b) ==
                   IF b.st # "Ok" THEN b
                   ELSE POk(for_loop(initializer, cond,
                                     IF increment.v.k # "None"
                                     THEN SBlock(<<b.v, increment.v>>)
                                     ELSE b.v),
                            b.cursor)
               with_increment(initializer, cond, increment) ==
                   IF increment.st # "Ok" THEN increment
                   ELSE with_body(initializer, cond, increment,
                                  statement(ts, increment.cursor))
               increment_at(initializer, condition, c3) ==
                   Indexing(ts, c3,
                     with_increment(initializer,
                       IF condition.v.k = "None"
                       THEN ELiteral(Tk(ts, c3).location, LBool(TRUE))
                       ELSE condition.v,
                       IF Tk(ts, c3).ttype = "RightParen"
                       THEN POk(NoStmt, c3 + 1)
                       ELSE increment_clause(expression(ts, c3))))
               with_condition(initializer, condition) ==
                   IF condition.st # "Ok" THEN condition
                   ELSE increment_at(initializer, condition, condition.cursor)
               condition_at(initializer, c2) ==
                   Indexing(ts, c2,
                     with_condition(initializer,
                       IF Tk(ts, c2).ttype = "Semicolon"
                       THEN POk(NoExpr, c2 + 1)
                       ELSE condition_clause(expression(ts, c2))))
               with_initializer(initializer) ==
                   IF initializer.st # "Ok" THEN initializer
                   ELSE condition_at(initializer, initializer.cursor)
           IN  Indexing(ts, c1,
                 with_initializer(
                   CASE Tk(ts, c1).ttype = "Semicolon" -> POk(NoStmt, c1 + 1)
                     [] Tk(ts, c1).ttype = "Var" -> var_decl(ts, c1 + 1)
                     [] OTHER -> expr_stmt(ts, c1 + 1))))

\* the `while ... Comma` loop of fun_stmt
RECURSIVE fun_params(_, _, _)
fun_params(ts, params, c) ==
    IF c < Len(ts) /\ Tk(ts, c).ttype = "Comma"
    THEN IF Len(params) >= 255
         THEN PErr("TooManyParameters", Tk(ts, c).location, c)
         ELSE Indexing(ts, c + 1,
                IF Tk(ts, c + 1).ttype = "Identifier"
                THEN fun_params(ts, Append(params, Tk(ts, c + 1).lexeme), c + 2)
                ELSE PErr("ExpectedParameterName", Tk(ts, c + 1).location,
                          c + 1))
    ELSE POk(params, c)

fun_stmt(ts, c) ==
    Indexing(ts, c,
      IF Tk(ts, c).ttype # "Identifier" THEN UnexpectedToken(ts, c)
      ELSE Indexing(ts, c + 1,
        IF Tk(ts, c + 1).ttype # "LeftParen" THEN UnexpectedToken(ts, c + 1)
        ELSE Indexing(ts, c + 2,
          LET name == Tk(ts, c).lexeme
              body(params, b) ==
                  IF b.st # "Ok" THEN b
                  ELSE POk(SFunDecl(name, params.v, b.v), b.cursor)
              body_at(params, c3) ==
                  Indexing(ts, c3,
                    IF Tk(ts, c3).ttype # "RightParen"
                    THEN ExpectedToken(")", "function", Tk(ts, c3).location,
                                       c3)
                    ELSE Indexing(ts, c3 + 1,
                      IF Tk(ts, c3 + 1).ttype # "LeftBrace"
                      THEN ExpectedToken("{", "function",
                                         Tk(ts, c3 + 1).location, c3 + 1)
                      ELSE body(params, block(ts, c3 + 2))))
              parameters(params) ==
                  IF params.st # "Ok" THEN params
                  ELSE body_at(params, params.cursor)
          IN  parameters(
                IF Tk(ts, c + 2).ttype = "RightParen" THEN POk(<<>>, c + 2)
                ELSE IF Tk(ts, c + 2).ttype = "Identifier"
                THEN fun_params(ts, <<Tk(ts, c + 2).lexeme>>, c + 3)
                ELSE PErr("ExpectedParameterName", Tk(ts, c + 2).location,
                          c + 2)))))

\* the while loop of block
block_while(ts, stmts, c) ==
    IF c < Len(ts) /\ Tk(ts, c).ttype \notin {"RightBrace", "EoF"}
    THEN LET next(s) ==
                 IF s.st # "Ok" THEN s
                 ELSE block_while(ts, Append(stmts, s.v), s.cursor)
         IN  next(statement(ts, c))
    ELSE POk(stmts, c)

block(ts, c) ==
    LET closing(b) ==
            IF b.st # "Ok" THEN b
            ELSE Indexing(ts, b.cursor,
                   IF Tk(ts, b.cursor).ttype # "RightBrace"
                   THEN PErr("UnterminatedBrace", Tk(ts, b.cursor).location,
                             b.cursor)
                   ELSE POk(SBlock(b.v), b.cursor + 1))
    IN  closing(block_while(ts, <<>>, c))

statement(ts, c) ==
    Indexing(ts, c,
      LET ttype == Tk(ts, c).ttype
      IN  CASE ttype = "Print" -> print_stmt(ts, c + 1)
            [] ttype = "Var" -> var_decl(ts, c + 1)
            [] ttype = "LeftBrace" -> block(ts, c + 1)
            [] ttype = "If" -> if_stmt(ts, c + 1)
            [] ttype = "While" -> while_stmt(ts, c + 1)
            [] ttype = "For" -> for_stmt(ts, c + 1)
            [] ttype = "Fun" -> fun_stmt(ts, c + 1)
            [] ttype = "Return" -> return_stmt(ts, c + 1)
            [] OTHER -> expr_stmt(ts, c))

\* Faulty variant of synchronize: the cursor goes back to the token of the
\* error.
synchronize_back(ts, c) == c - 1

RECURSIVE synchronize(_, _)
synchronize(ts, c) ==
    IF c < Len(ts)
    THEN CASE Tk(ts, c).ttype = "Semicolon" -> c + 1
           [] Tk(ts, c).ttype \in {"Class", "Fun", "Var", "For", "If", "While",
                                   "Print", "Return"} -> c
           [] OTHER -> synchronize(ts, c + 1)
    ELSE c


-----------------------------------------------------------------------------
(* The resolver.  scopes is the Vec<HashMap<&str, bool>>, a sequence of    *)
(* functions from names to booleans; locals is the HashMap from locations  *)
(* to depths.  A result is [ok, err, scopes, locals]: the two maps are     *)
(* mutated in place by the code, so they are returned on errors too.       *)

ROk(scopes, locals) ==
    [ok |-> TRUE, err |-> <<>>, scopes |-> scopes, locals |-> locals]

RErr(kind, name, location, scopes, locals) ==
    [ok |-> FALSE,
     err |-> [kind |-> kind, name |-> name, location |-> location],
     scopes |-> scopes, locals |-> locals]

\* Faulty variant of MapInsert: the key is stored in place of the value.
MapInsert_key(m, key, value) == (key :> key) @@ m

\* HashMap::insert
MapInsert(m, key, value) == (key :> value) @@ m

\* scopes.iter().rev().enumerate().find_map(..): 0 is the innermost scope;
\* -1 is None
ScopeDepth(scopes, name) ==
    LET found == {d \in 0..(Len(scopes) - 1) :
                     name \in DOMAIN scopes[Len(scopes) - d]}
    IN  IF found = {} THEN 0 - 1
        ELSE CHOOSE d \in found : \A e \in found : d <= e

\* the shared tail of Expr::Variable and Expr::Assignment
ResolveLocal(name, location, scopes, locals) ==
    LET depth == ScopeDepth(scopes, name)
    IN  IF depth >= 0
        THEN ROk(scopes, MapInsert(locals, location, depth))
        ELSE RErr("AccessUndefined", name, location, scopes, locals)

RECURSIVE ResolveExpr(_, _, _), ResolveExprs(_, _, _)

ResolveExpr(e, scopes, locals) ==
    CASE e.k = "Binary" ->
           LET right(l) ==
                   IF ~l.ok THEN l
                   ELSE ResolveExpr(e.right, l.scopes, l.locals)
           IN  right(ResolveExpr(e.left, scopes, locals))
      [] e.k = "Unary" -> ResolveExpr(e.right, scopes, locals)
      [] e.k = "Literal" -> ROk(scopes, locals)
      [] e.k = "Variable" ->
           LET last == scopes[Len(scopes)]
           IN  IF e.name \in DOMAIN last /\ ~last[e.name]
               THEN RErr("AccessInInitializer", e.name, e.location, scopes,
                         locals)
               ELSE ResolveLocal(e.name, e.location, scopes, locals)
      [] e.k = "Assignment" ->
           LET target(v) ==
                   IF ~v.ok THEN v
                   ELSE ResolveLocal(e.name, e.location, v.scopes, v.locals)
           IN  target(ResolveExpr(e.value, scopes, locals))
      [] e.k = "Call" ->
           LET arguments(c) ==
                   IF ~c.ok THEN c
                   ELSE ResolveExprs(e.arguments, c.scopes, c.locals)
           IN  arguments(ResolveExpr(e.callee, scopes, locals))

\* for arg in arguments { arg.resolve(scopes, locals)?; }
ResolveExprs(es, scopes, locals) ==
    IF es = <<>> THEN ROk(scopes, locals)
    ELSE LET rest(r) ==
                 IF ~r.ok THEN r
                 ELSE ResolveExprs(Tail(es), r.scopes, r.locals)
         IN  rest(ResolveExpr(Head(es), scopes, locals))

\* scopes[last].insert(name, value)
ScopeInsert(scopes, name, value) ==
    [scopes EXCEPT ![Len(scopes)] = MapInsert(@, name, value)]

RECURSIVE ScopeInsertAll(_, _)
ScopeInsertAll(scopes, params) ==
    IF params = <<>> THEN scopes
    ELSE ScopeInsertAll(ScopeInsert(scopes, Head(params), TRUE), Tail(params))

\* scopes.pop()
ScopePop(scopes) == SubSeq(scopes, 1, Len(scopes) - 1)

RECURSIVE ResolveStmt(_, _, _), ResolveStmts(_, _, _)

ResolveStmt(s, scopes, locals) ==
    CASE s.k \in {"Expression", "Print", "Return"} ->
           ResolveExpr(s.expr, scopes, locals)
      [] s.k = "VarDecl" ->
           IF s.name \in DOMAIN scopes[Len(scopes)]
           THEN RErr("DuplicateVariable", s.name, s.location, scopes, locals)
           ELSE LET defined(i) ==
                        IF ~i.ok THEN i
                        ELSE ROk(ScopeInsert(i.scopes, s.name, TRUE), i.locals)
                    initializer(declared) ==
                        defined(IF s.initializer.k = "None"
                                THEN ROk(declared, locals)
                                ELSE ResolveExpr(s.initializer, declared,
                                                 locals))
                IN  initializer(ScopeInsert(scopes, s.name, FALSE))
      [] s.k = "If" ->
           LET else_branch(t) ==
                   IF ~t.ok \/ s.else_branch.k = "None" THEN t
                   ELSE ResolveStmt(s.else_branch, t.scopes, t.locals)
               then_branch(c) ==
                   IF ~c.ok THEN c
                   ELSE else_branch(ResolveStmt(s.then_branch, c.scopes,
                                                c.locals))
           IN  then_branch(ResolveExpr(s.condition, scopes, locals))
      [] s.k = "While" ->
           LET body(c) ==
                   IF ~c.ok THEN c
                   ELSE ResolveStmt(s.body, c.scopes, c.locals)
           IN  body(ResolveExpr(s.condition, scopes, locals))
      [] s.k = "Block" ->
           LET popped(b) ==
                   IF ~b.ok THEN b ELSE ROk(ScopePop(b.scopes), b.locals)
           IN  popped(ResolveStmts(s.stmts, Append(scopes, <<>>), locals))
      [] s.k = "FunDecl" ->
           LET popped(b) ==
                   IF ~b.ok THEN b ELSE ROk(ScopePop(b.scopes), b.locals)
           IN  popped(ResolveStmt(s.body,
                        ScopeInsertAll(
                          Append(ScopeInsert(scopes, s.name, TRUE), <<>>),
                          s.params),
                        locals))

\* for stmt in vec { stmt.resolve(scopes, locals)?; }
ResolveStmts(ss, scopes, locals) ==
    IF ss = <<>> THEN ROk(scopes, locals)
    ELSE LET rest(r) ==
                 IF ~r.ok THEN r
                 ELSE ResolveStmts(Tail(ss), r.scopes, r.locals)
         IN  rest(ResolveStmt(Head(ss), scopes, locals))

\* Resolver::builtin_clock
builtin_clock(scopes) == ScopeInsert(scopes, <<"c", "l", "o", "c", "k">>, TRUE)


-----------------------------------------------------------------------------
(* f64 arithmetic on the fractions, and the two ways numbers are printed.  *)
(* The fractions are exact where f64 is: on integers and on fractions with *)
(* a power of two below, which is what the inputs below produce.           *)

IsNaN(a) == a[1] = 0 /\ a[2] = 0

IsInf(a) == a[1] # 0 /\ a[2] = 0

FAdd(a, b) ==
    IF IsInf(a) /\ IsInf(b) THEN (IF a[1] = b[1] THEN a ELSE <<0, 0>>)
    ELSE Frac(a[1] * b[2] + b[1] * a[2], a[2] * b[2])

FNeg(a) == <<0 - a[1], a[2]>>

FSub(a, b) == FAdd(a, FNeg(b))

FMul(a, b) == Frac(a[1] * b[1], a[2] * b[2])

FDiv(a, b) == Frac(a[1] * b[2], a[2] * b[1])

FLess(a, b) ==
    /\ ~IsNaN(a) /\ ~IsNaN(b) /\ a # b
    /\ IF IsInf(a) /\ IsInf(b) THEN a[1] < b[1]
       ELSE a[1] * b[2] < b[1] * a[2]

FEq(a, b) == ~IsNaN(a) /\ a = b

RECURSIVE NatChars(_)
NatChars(n) ==
    IF n < 10 THEN <<DigitChars[n + 1]>>
    ELSE Append(NatChars(n \div 10), DigitChars[(n % 10) + 1])

\* write!(f, "{}", n) of an i64
FmtI64(n) == IF n < 0 THEN <<"-">> \o NatChars(0 - n) ELSE NatChars(n)

\* the digits after the point of r/q, r < q, at most n of them
RECURSIVE FracDigits(_, _, _)
FracDigits(r, q, n) ==
    IF r = 0 \/ n = 0 THEN <<>>
    ELSE <<DigitChars[((r * 10) \div q) + 1]>>
         \o FracDigits((r * 10) % q, q, n - 1)

\* a number that is not an integer, as both {} and {:?} write it
FmtFraction(a) ==
    CASE IsNaN(a) -> <<"N", "a", "N">>
      [] IsInf(a) /\ a[1] > 0 -> <<"i", "n", "f">>
      [] IsInf(a) /\ a[1] < 0 -> <<"-", "i", "n", "f">>
      [] OTHER ->
           (IF a[1] < 0 THEN <<"-">> ELSE <<>>)
           \o NatChars(Abs(a[1]) \div a[2]) \o <<".">>
           \o FracDigits(Abs(a[1]) % a[2], a[2], 17)

\* impl Display for Literal
LiteralDisplay(l) ==
    CASE l.t = "Function" ->
           <<"f", "u", "n", "c", "t", "i", "o", "n">>
      [] l.t = "String" -> l.v
      [] l.t = "Number" ->
           IF l.v[2] = 1 THEN FmtI64(l.v[1]) ELSE FmtFraction(l.v)
      [] l.t = "True" -> <<"t", "r", "u", "e">>
      [] l.t = "False" -> <<"f", "a", "l", "s", "e">>
      [] l.t = "Nil" -> <<"n", "i", "l">>

\* Literal::is_truthy
is_truthy(l) == l.t \notin {"Nil", "False"}

\* impl PartialEq for Literal
LiteralEq(a, b) ==
    CASE a.t = "Function" \/ b.t = "Function" -> FALSE
      [] a.t = "String" /\ b.t = "String" -> a.v = b.v
      [] a.t = "Number" /\ b.t = "Number" -> FEq(a.v, b.v)
      [] OTHER -> a.t = b.t

\* impl PartialOrd for Literal: "Less", "Equal", "Greater" or "None"
partial_cmp(a, b) ==
    IF a.t = "Number" /\ b.t = "Number" /\ ~IsNaN(a.v) /\ ~IsNaN(b.v)
    THEN IF FLess(a.v, b.v) THEN "Less"
         ELSE IF FLess(b.v, a.v) THEN "Greater" ELSE "Equal"
    ELSE "None"

-----------------------------------------------------------------------------
(* Environments.  Rc<RefCell<Environment>> is an index into heap, the      *)
(* sequence of all environments created; parent 0 is None.  A value slot   *)
(* holds Option<Literal>, None being NoLit.                                *)

Missing == [t |-> "Missing", v |-> <<>>]

\* Environment::new and Environment::new_with_parent: the heap with the new
\* environment, whose index is its length
new_with_parent(heap, parent) ==
    Append(heap, [parent |-> parent, values |-> <<>>])

\* Environment::define
define(heap, env, name, value) ==
    [heap EXCEPT ![env].values = MapInsert(@, name, value)]

\* Environment::get: Missing is None
RECURSIVE get(_, _, _)
get(heap, env, name) ==
    IF name \in DOMAIN heap[env].values THEN heap[env].values[name]
    ELSE IF heap[env].parent # 0 THEN get(heap, heap[env].parent, name)
    ELSE Missing

\* Environment::get_at: Missing is Err(ResolverError)
RECURSIVE get_at(_, _, _, _)
get_at(heap, env, name, depth) ==
    IF depth > 0
    THEN IF heap[env].parent # 0
         THEN get_at(heap, heap[env].parent, name, depth - 1)
         ELSE Missing
    ELSE get(heap, env, name)

\* Faulty variant of update: the name is bound in the receiver.
update_receiver(heap, env, name, value) ==
    [ok |-> TRUE, heap |-> define(heap, env, name, value)]

\* Environment::update: ok = FALSE is None
RECURSIVE update(_, _, _, _)
update(heap, env, name, value) ==
    IF name \in DOMAIN heap[env].values
    THEN [ok |-> TRUE, heap |-> define(heap, env, name, value)]
    ELSE IF heap[env].parent # 0
    THEN update(heap, heap[env].parent, name, value)
    ELSE [ok |-> FALSE, heap |-> heap]

\* the assignment binds the name in the receiver, whatever the depth
update_at_here(heap, env, name, value, depth) ==
    [ok |-> TRUE, heap |-> define(heap, env, name, value)]

\* Environment::update_at: ok = FALSE is Err(ResolverError)
RECURSIVE update_at(_, _, _, _, _)
update_at(heap, env, name, value, depth) ==
    IF depth > 0
    THEN IF heap[env].parent # 0
         THEN update_at(heap, heap[env].parent, name, value, depth - 1)
         ELSE [ok |-> FALSE, heap |-> heap]
    ELSE update(heap, env, name, value)


-----------------------------------------------------------------------------
(* The tree-path interpreter.  S = [heap, out, fstack, fuel] is what an    *)
(* evaluation can change: the environments, the lines written to stdout,   *)
(* the function_stack, and the number of calls and loop turns still        *)
(* allowed before the run counts as not returning.  A result is            *)
(* [st, v, ret, S]: st "Ok", "Err" or "Diverge"; v the Literal (NoLit for  *)
(* None); ret the bool of (Option<Literal>, bool).                         *)

IOk(v, ret, S) == [st |-> "Ok", v |-> v, ret |-> ret, S |-> S]

\* Err(Error::RuntimeError { message, location })
RuntimeError(message, location, S) ==
    [st |-> "Err", v |-> [message |-> message, location |-> location],
     ret |-> FALSE, S |-> S]

Diverge(S) == [st |-> "Diverge", v |-> NoLit, ret |-> FALSE, S |-> S]

\* the function captures the global environment, not the one it is
\* declared in
LFunction_global(params, body, closure) ==
    [t |-> "Function", v |-> [params |-> params, body |-> body, closure |-> 1]]

\* Literal::Function { params, body, closure }
LFunction(params, body, closure) ==
    [t |-> "Function",
     v |-> [params |-> params, body |-> body, closure |-> closure]]

\* the match on operator of Expr::Binary
BinaryOp(operator, left, right, location, S) ==
    LET comp == partial_cmp(left, right)
        Compare(accepted) ==
            IF comp = "None"
            THEN RuntimeError("Cannot compare values", location, S)
            ELSE IOk(LBool(comp \in accepted), FALSE, S)
        Arith(F(_, _), message) ==
            IF left.t = "Number" /\ right.t = "Number"
            THEN IOk([t |-> "Number", v |-> F(left.v, right.v)], FALSE, S)
            ELSE RuntimeError(message, location, S)
    IN  CASE operator = "EqualEq" -> IOk(LBool(LiteralEq(left, right)), FALSE, S)
          [] operator = "BangEq" -> IOk(LBool(~LiteralEq(left, right)), FALSE, S)
          [] operator = "Greater" -> Compare({"Greater"})
          [] operator = "Less" -> Compare({"Less"})
          [] operator = "GreaterEq" -> Compare({"Greater", "Equal"})
          [] operator = "LessEq" -> Compare({"Less", "Equal"})
          [] operator = "Plus" ->
               IF left.t = "Number" /\ right.t = "Number"
               THEN IOk([t |-> "Number", v |-> FAdd(left.v, right.v)], FALSE, S)
               ELSE IF left.t = "String" \/ right.t = "String"
               THEN IOk(LString(LiteralDisplay(left) \o LiteralDisplay(right)),
                        FALSE, S)
               ELSE RuntimeError("Cannot add values", location, S)
          [] operator = "Minus" -> Arith(FSub, "Cannot subtract values")
          [] operator = "Star" -> Arith(FMul, "Cannot multiply values")
          [] operator = "Slash" ->
               IF left.t = "Number" /\ right.t = "Number" /\ right.v[1] = 0
                  /\ right.v[2] = 1
               THEN RuntimeError("Cannot divide by zero", location, S)
               ELSE Arith(FDiv, "Cannot divide values")
          [] operator = "Or" ->
               IOk(IF is_truthy(left) THEN left ELSE right, FALSE, S)
          [] operator = "And" ->
               IOk(IF ~is_truthy(left) THEN left ELSE right, FALSE, S)
          [] OTHER ->
               [st |-> "Err",
                v |-> [message |-> "ParseError", location |-> location],
                ret |-> FALSE, S |-> S]

\* the match on operator of Expr::Unary
UnaryOp(operator, right, location, S) ==
    CASE operator = "Minus" ->
           IF right.t = "Number"
           THEN IOk([t |-> "Number", v |-> FNeg(right.v)], FALSE, S)
           ELSE RuntimeError("Cannot negate a non-number", location, S)
      [] operator = "Bang" -> IOk(LBool(~is_truthy(right)), FALSE, S)
      [] OTHER ->
           [st |-> "Err",
            v |-> [message |-> "ParseError", location |-> location],
            ret |-> FALSE, S |-> S]

\* params.into_iter().zip(arguments).for_each(|(p, l)| define(p, Some(l)))
RECURSIVE DefineParams(_, _, _, _)
DefineParams(heap, env, params, arguments) ==
    IF params = <<>> \/ arguments = <<>> THEN heap
    ELSE DefineParams(define(heap, env, Head(params), Head(arguments)), env,
                      Tail(params), Tail(arguments))


RECURSIVE Evaluate(_, _, _, _), EvaluateAll(_, _, _, _, _),
          Execute(_, _, _, _), ExecuteWhile(_, _, _, _),
          ExecuteBlock(_, _, _, _)

\* ExecuteBlock without `if res.1 { break; }`
ExecuteBlock_no_break(stmts, new_env, locals, S) ==
    IF stmts = <<>> THEN IOk(NoLit, FALSE, S)
    ELSE LET next(res) ==
                 IF res.st # "Ok" \/ Len(stmts) = 1 THEN res
                 ELSE ExecuteBlock(Tail(stmts), new_env, locals, res.S)
         IN  next(Execute(Head(stmts), new_env, locals, S))

\* impl EvaluateExpr for Expr
Evaluate(e, env, locals, S) ==
    CASE e.k = "Binary" ->
           LET right(l, r) ==
                   IF r.st # "Ok" THEN r
                   ELSE BinaryOp(e.operator, l.v, r.v, e.location, r.S)
               left(l) ==
                   IF l.st # "Ok" THEN l
                   ELSE right(l, Evaluate(e.right, env, locals, l.S))
           IN  left(Evaluate(e.left, env, locals, S))
      [] e.k = "Unary" ->
           LET right(r) ==
                   IF r.st # "Ok" THEN r
                   ELSE UnaryOp(e.operator, r.v, e.location, r.S)
           IN  right(Evaluate(e.right, env, locals, S))
      [] e.k = "Literal" -> IOk(e.value, FALSE, S)
      [] e.k = "Variable" ->
           LET found(val) ==
                   IF val.t = "Missing"
                   THEN RuntimeError(IF e.location \in DOMAIN locals
                                     THEN "ResolverError"
                                     ELSE "Undefined variable", e.location, S)
                   ELSE IF val.t = "None"
                   THEN RuntimeError("Uninitialized variable", e.location, S)
                   ELSE IOk(val, FALSE, S)
           IN  found(IF e.location \in DOMAIN locals
                     THEN get_at(S.heap, env, e.name, locals[e.location])
                     ELSE get(S.heap, env, e.name))
      [] e.k = "Assignment" ->
           LET updated(v, u) ==
                   IF u.ok
                   THEN IOk(v.v, FALSE, [v.S EXCEPT !.heap = u.heap])
                   ELSE RuntimeError(IF e.location \in DOMAIN locals
                                     THEN "ResolverError"
                                     ELSE "Undefined variable",
                                     e.location, v.S)
               value(v) ==
                   IF v.st # "Ok" THEN v
                   ELSE updated(v,
                          IF e.location \in DOMAIN locals
                          THEN update_at(v.S.heap, env, e.name, v.v,
                                         locals[e.location])
                          ELSE update(v.S.heap, env, e.name, v.v))
           IN  value(Evaluate(e.value, env, locals, S))
      [] e.k = "Call" ->
           LET returned(res) ==
                   IF res.st # "Ok" THEN res
                   ELSE IOk(IF res.v.t = "None" THEN LNil ELSE res.v, FALSE,
                            [res.S EXCEPT
                               !.fstack = SubSeq(@, 1, Len(@) - 1)])
               \* created is the heap with the new environment at its end
               body(c, a, created) ==
                   returned(Execute(c.v.v.body, Len(created), locals,
                              [a.S EXCEPT
                                 !.heap = DefineParams(created, Len(created),
                                                       c.v.v.params, a.v),
                                 !.fstack = Append(@, "Function"),
                                 !.fuel = @ - 1]))
               arguments(c, a) ==
                   IF a.st # "Ok" THEN a
                   ELSE IF a.S.fuel = 0 THEN Diverge(a.S)
                   ELSE body(c, a, new_with_parent(a.S.heap, c.v.v.closure))
               callee(c) ==
                   IF c.st # "Ok" THEN c
                   ELSE IF c.v.t # "Function"
                   THEN RuntimeError("Can only call functions and classes.",
                                     e.location, c.S)
                   ELSE IF Len(e.arguments) # Len(c.v.v.params)
                   THEN RuntimeError("Expected arguments", e.location, c.S)
                   ELSE arguments(c, EvaluateAll(e.arguments, <<>>, env,
                                                 locals, c.S))
           IN  callee(Evaluate(e.callee, env, locals, S))

\* arguments.iter().map(|e| e.evaluate(..)).collect(): the first error ends it
EvaluateAll(es, done, env, locals, S) ==
    IF es = <<>> THEN IOk(done, FALSE, S)
    ELSE LET rest(r) ==
                 IF r.st # "Ok" THEN r
                 ELSE EvaluateAll(Tail(es), Append(done, r.v), env, locals,
                                  r.S)
         IN  rest(Evaluate(Head(es), env, locals, S))

\* impl ExecuteStmt for Stmt
Execute(s, env, locals, S) ==
    CASE s.k = "Expression" -> Evaluate(s.expr, env, locals, S)
      [] s.k = "Print" ->
           LET printed(v) ==
                   IF v.st # "Ok" THEN v
                   ELSE IOk(NoLit, FALSE,
                            [v.S EXCEPT
                               !.out = Append(@, LiteralDisplay(v.v))])
           IN  printed(Evaluate(s.expr, env, locals, S))
      [] s.k = "VarDecl" ->
           LET defined(v) ==
                   IF v.st # "Ok" THEN v
                   ELSE IOk(NoLit, FALSE,
                            [v.S EXCEPT !.heap = define(@, env, s.name, v.v)])
           IN  defined(IF s.initializer.k = "None" THEN IOk(NoLit, FALSE, S)
                       ELSE Evaluate(s.initializer, env, locals, S))
      [] s.k = "If" ->
           LET branch(c) ==
                   IF c.st # "Ok" THEN c
                   ELSE IF is_truthy(c.v)
                   THEN Execute(s.then_branch, env, locals, c.S)
                   ELSE IF s.else_branch.k # "None"
                   THEN Execute(s.else_branch, env, locals, c.S)
                   ELSE IOk(NoLit, FALSE, c.S)
           IN  branch(Evaluate(s.condition, env, locals, S))
      [] s.k = "While" -> ExecuteWhile(s, env, locals, S)
      [] s.k = "Block" ->
           LET left(b) ==
                   IF b.st # "Ok" \/ b.ret THEN b ELSE IOk(NoLit, FALSE, b.S)
               entered(created) ==
                   left(ExecuteBlock(s.stmts, Len(created), locals,
                                     [S EXCEPT !.heap = created]))
           IN  entered(new_with_parent(S.heap, env))
      [] s.k = "FunDecl" ->
           IOk(NoLit, FALSE,
               [S EXCEPT !.heap = define(@, env, s.name,
                                         LFunction(s.params, s.body, env))])
      [] s.k = "Return" ->
           IF S.fstack[Len(S.fstack)] = "None"
           THEN RuntimeError("Can't return from outside a function",
                             s.expr.location, S)
           ELSE LET returned(v) ==
                        IF v.st # "Ok" THEN v ELSE IOk(v.v, TRUE, v.S)
                IN  returned(Evaluate(s.expr, env, locals, S))

\* the while loop of Stmt::While
ExecuteWhile(s, env, locals, S) ==
    LET body(res) ==
            IF res.st # "Ok" \/ res.ret THEN res
            ELSE ExecuteWhile(s, env, locals, res.S)
        condition(c) ==
            IF c.st # "Ok" THEN c
            ELSE IF ~is_truthy(c.v) THEN IOk(NoLit, FALSE, c.S)
            ELSE IF c.S.fuel = 0 THEN Diverge(c.S)
            ELSE body(Execute(s.body, env, locals,
                              [c.S EXCEPT !.fuel = @ - 1]))
    IN  condition(Evaluate(s.condition, env, locals, S))

\* the for loop of Stmt::Block
ExecuteBlock(stmts, new_env, locals, S) ==
    IF stmts = <<>> THEN IOk(NoLit, FALSE, S)
    ELSE LET next(res) ==
                 IF res.st # "Ok" \/ res.ret \/ Len(stmts) = 1 THEN res
                 ELSE ExecuteBlock(Tail(stmts), new_env, locals, res.S)
         IN  next(Execute(Head(stmts), new_env, locals, S))


-----------------------------------------------------------------------------
(* Bytecode path: scan.rs.  sc = [start, current, line] is the Scanner; a  *)
(* result carries panic = TRUE where the code indexes source past its end. *)

Token(ttype, lexeme, line) ==
    [ttype |-> ttype, lexeme |-> lexeme, line |-> line]

\* token!(self, ttype)
token(src, sc, ttype) ==
    [panic |-> FALSE, sc |-> sc,
     tok |-> Token(ttype, Slice(src, sc.start, sc.current), sc.line)]

\* error_token!(self, message)
error_token(sc, message) ==
    [panic |-> FALSE, sc |-> sc, tok |-> Token("Error", <<message>>, sc.line)]

ScanPanic(sc) ==
    [panic |-> TRUE, sc |-> sc, tok |-> Token("Error", <<>>, sc.line)]

\* Scanner::new
ScannerNew == [start |-> 0, current |-> 0, line |-> 1]

\* Scanner::is_at_end
is_at_end(src, sc) == sc.current = Len(src)

\* Scanner::match_advance: [m, sc]
match_advance(src, sc, c) ==
    IF is_at_end(src, sc) THEN [m |-> FALSE, sc |-> sc]
    ELSE IF Ch(src, sc.current) = c THEN [m |-> FALSE, sc |-> sc]
    ELSE [m |-> TRUE, sc |-> [sc EXCEPT !.current = @ + 1]]

\* Scanner::peek_next; NoChar stands for the panic of source[current + 1]
peek_next(src, sc) ==
    IF is_at_end(src, sc) THEN "\\0" ELSE Ch(src, sc.current + 1)

\* the `while self.peek() != b'\n' && !self.is_at_end()` loop of
\* skip_whitespace: peek is evaluated first and panics at the end
RECURSIVE skip_comment(_, _)
skip_comment(src, sc) ==
    IF sc.current >= Len(src) THEN [panic |-> TRUE, sc |-> sc]
    ELSE IF Ch(src, sc.current) = "\n" THEN [panic |-> FALSE, sc |-> sc]
    ELSE skip_comment(src, [sc EXCEPT !.current = @ + 1])

\* Scanner::skip_whitespace: [panic, sc]
RECURSIVE skip_whitespace(_, _)
skip_whitespace(src, sc) ==
    IF is_at_end(src, sc) THEN [panic |-> FALSE, sc |-> sc]
    ELSE LET c == Ch(src, sc.current)
         IN  CASE c \in {" ", "\t", "\r"} ->
                    skip_whitespace(src, [sc EXCEPT !.current = @ + 1])
               [] c = "\n" ->
                    skip_whitespace(src, [sc EXCEPT !.line = @ + 1,
                                                    !.current = @ + 1])
               [] c = "/" ->
                    IF peek_next(src, sc) = NoChar
                    THEN [panic |-> TRUE, sc |-> sc]
                    ELSE IF peek_next(src, sc) = "/"
                    THEN LET after(r) ==
                                 IF r.panic THEN r
                                 ELSE skip_whitespace(src, r.sc)
                         IN  after(skip_comment(src, sc))
                    ELSE [panic |-> FALSE, sc |-> sc]
               [] OTHER -> [panic |-> FALSE, sc |-> sc]

\* Scanner::string
RECURSIVE bscan_string(_, _)
bscan_string(src, sc) ==
    IF sc.current >= Len(src) THEN ScanPanic(sc)
    ELSE IF Ch(src, sc.current) # "\""
    THEN LET skipped == IF Ch(src, sc.current) = "\n" THEN sc.current + 1
                        ELSE sc.current
         IN  \* advance: current += 1, then source[current - 1]
             IF skipped >= Len(src) THEN ScanPanic(sc)
             ELSE bscan_string(src, [sc EXCEPT !.current = skipped + 1])
    ELSE IF is_at_end(src, sc) THEN error_token(sc, "Unterminated string")
    ELSE token(src, [sc EXCEPT !.current = @ + 1], "String")

\* `while self.peek().is_ascii_digit() { self.advance(); }`
RECURSIVE skip_digits(_, _)
skip_digits(src, sc) ==
    IF sc.current >= Len(src) THEN [panic |-> TRUE, sc |-> sc]
    ELSE IF Ch(src, sc.current) \in Digit
    THEN skip_digits(src, [sc EXCEPT !.current = @ + 1])
    ELSE [panic |-> FALSE, sc |-> sc]

\* Scanner::number
bscan_number(src, sc) ==
    LET fraction(f) ==
            IF f.panic THEN ScanPanic(f.sc) ELSE token(src, f.sc, "Number")
        digits(d) ==
            IF d.panic THEN ScanPanic(d.sc)
            ELSE IF Ch(src, d.sc.current) = "."
            THEN fraction(skip_digits(src, [d.sc EXCEPT !.current = @ + 1]))
            ELSE token(src, d.sc, "Number")
    IN  digits(skip_digits(src, sc))

\* Scanner::keyword_if_match
keyword_if_match(src, sc, start, length, check, ttype) ==
    IF /\ sc.current - sc.start = start + length
       /\ Slice(src, sc.start + start, sc.start + start + length) = check
    THEN token(src, sc, ttype)
    ELSE token(src, sc, "Identifier")

\* the loop of Scanner::identifier
RECURSIVE skip_identifier(_, _)
skip_identifier(src, sc) ==
    IF sc.current >= Len(src) THEN [panic |-> TRUE, sc |-> sc]
    ELSE IF Ch(src, sc.current) \in Digit \cup Alpha \cup {"_"}
    THEN skip_identifier(src, [sc EXCEPT !.current = @ + 1])
    ELSE [panic |-> FALSE, sc |-> sc]

\* Scanner::identifier
identifier(src, sc0) ==
    LET keyword(sc, first, second) ==
            LET K(start, length, check, ttype) ==
                    keyword_if_match(src, sc, start, length, check, ttype)
            IN  CASE first = "a" -> K(1, 2, <<"n", "d">>, "And")
                  [] first = "c" -> K(1, 4, <<"l", "a", "s", "s">>, "Class")
                  [] first = "e" -> K(1, 3, <<"l", "s", "e">>, "Else")
                  [] first = "i" -> K(1, 1, <<"f">>, "If")
                  [] first = "n" -> K(1, 2, <<"i", "l">>, "Nil")
                  [] first = "o" -> K(1, 1, <<"r">>, "Or")
                  [] first = "p" -> K(1, 4, <<"r", "i", "n", "t">>, "Print")
                  [] first = "r" ->
                       K(1, 5, <<"e", "t", "u", "r", "n">>, "Return")
                  [] first = "s" -> K(1, 4, <<"u", "p", "e", "r">>, "Super")
                  [] first = "v" -> K(1, 2, <<"a", "r">>, "Var")
                  [] first = "w" -> K(1, 4, <<"h", "i", "l", "e">>, "While")
                  [] first = "f" /\ sc.current - sc.start > 1 ->
                       CASE second = "a" ->
                              K(2, 3, <<"l", "s", "e">>, "False")
                         [] second = "o" -> K(2, 1, <<"r">>, "For")
                         [] second = "u" -> K(2, 1, <<"n">>, "Fun")
                         [] OTHER -> token(src, sc, "Identifier")
                  [] first = "t" /\ sc.current - sc.start > 1 ->
                       CASE second = "h" -> K(2, 3, <<"i", "s">>, "This")
                         [] second = "r" -> K(2, 1, <<"u", "e">>, "True")
                         [] OTHER -> token(src, sc, "Identifier")
                  [] OTHER -> token(src, sc, "Identifier")
        scanned(r) ==
            IF r.panic THEN ScanPanic(r.sc)
            ELSE keyword(r.sc, Ch(src, r.sc.start), Ch(src, r.sc.start + 1))
    IN  scanned(skip_identifier(src, sc0))

\* Scanner::scan_token: [panic, tok, sc]
scan_token(src, sc0) ==
    LET \* sc1 is the scanner at the start of the lexeme, c its first
        \* character and sc the scanner after advance()
        lexeme(sc1, c, sc) ==
            LET OneOrTwo(one, two) ==
                    LET matched(m) ==
                            token(src, m.sc, IF m.m THEN two ELSE one)
                    IN  matched(match_advance(src, sc, "="))
            IN  CASE c = "(" -> token(src, sc, "LeftParen")
                  [] c = ")" -> token(src, sc, "RightParen")
                  [] c = "{" -> token(src, sc, "LeftBrace")
                  [] c = "}" -> token(src, sc, "RightBrace")
                  [] c = ";" -> token(src, sc, "Semicolon")
                  [] c = "," -> token(src, sc, "Comma")
                  [] c = "." -> token(src, sc, "Dot")
                  [] c = "-" -> token(src, sc, "Minus")
                  [] c = "+" -> token(src, sc, "Plus")
                  [] c = "/" -> token(src, sc, "Slash")
                  [] c = "*" -> token(src, sc, "Star")
                  [] c = "!" -> OneOrTwo("Bang", "BangEqual")
                  [] c = "=" -> OneOrTwo("Equal", "EqualEqual")
                  [] c = "<" -> OneOrTwo("Less", "LessEqual")
                  [] c = ">" -> OneOrTwo("Greater", "GreaterEqual")
                  [] c = "\"" -> bscan_string(src, sc)
                  [] c \in Digit -> bscan_number(src, sc)
                  [] c \in Alpha \cup {"_"} -> identifier(src, sc)
                  [] OTHER -> error_token(sc, "Unexpected character")
        started(sc1) ==
            IF is_at_end(src, sc1) THEN token(src, sc1, "EoF")
            ELSE lexeme(sc1, Ch(src, sc1.current),
                        [sc1 EXCEPT !.current = @ + 1])
        skipped(w) ==
            IF w.panic THEN ScanPanic(w.sc)
            ELSE started([w.sc EXCEPT !.start = w.sc.current])
    IN  skipped(skip_whitespace(src, sc0))


-----------------------------------------------------------------------------
(* Bytecode path: chunk.rs                                                 *)

OpCodes ==
    <<"Return", "Constant", "ConstantLong", "Negate", "Add", "Subtract",
      "Multiply", "Divide", "Nil", "True", "False", "Not", "Equal",
      "Greater", "Less", "Print", "Pop", "DefineGlobal", "GetGlobal",
      "SetGlobal">>

\* impl From<u8> for OpCode
OpFrom(byte) == IF byte < Len(OpCodes) THEN OpCodes[byte + 1] ELSE "Unknown"

\* impl From<OpCode> for u8
OpByte(op) ==
    IF op = "Unknown" THEN 255
    ELSE (CHOOSE i \in 1..Len(OpCodes) : OpCodes[i] = op) - 1

\* the values of a u8
ByteValues == 256

\* long_index
long_index(idx_top, idx_bot) == idx_top * 256 + idx_bot

\* break_index
break_index(idx) == <<(idx \div 256) % 256, idx % 256>>

\* Chunk::new.  emitted is a history of the compilation, not a field of the
\* code: the offsets at which an opcode (not an operand) was written
ChunkNew == [code |-> <<>>, constants |-> <<>>, lines |-> <<>>, emitted |-> <<>>]


\* Chunk::write
write(chunk, byte, line) ==
    [chunk EXCEPT !.code = Append(@, byte), !.lines = Append(@, line)]

\* chunk.write(OpCode::X.into(), line): write, and the history of it
write_op(chunk, op, line) ==
    write([chunk EXCEPT !.emitted = Append(@, Len(chunk.code))],
          OpByte(op), line)

\* Chunk::add_constant: the chunk; the index returned is Len(constants) - 1
add_constant(chunk, value) ==
    [chunk EXCEPT !.constants = Append(@, value)]

\* Faulty variant of write_constant: the short form whatever the index.
write_constant_short(chunk, value, line) ==
    write(write_op(add_constant(chunk, value), "Constant", line),
          Len(chunk.constants) % 256, line)

\* Chunk::write_constant
write_constant(chunk, value, line) ==
    LET added == add_constant(chunk, value)
        const_idx == Len(added.constants) - 1
    IN  IF const_idx < 256
        THEN write(write_op(added, "Constant", line), const_idx, line)
        ELSE write(write(write_op(added, "ConstantLong", line),
                         break_index(const_idx)[1], line),
                   break_index(const_idx)[2], line)

\* Chunk::read_constant (index counted from 0)
read_constant(chunk, index) == chunk.constants[index + 1]

-----------------------------------------------------------------------------
(* Bytecode path: value.rs                                                 *)

VNumber(f) == [t |-> "Number", v |-> f]

VBool(b) == [t |-> "Bool", v |-> b]

VConstString(s) == [t |-> "ConstString", v |-> s]

VString(s) == [t |-> "String", v |-> s]

VNil == [t |-> "Nil", v |-> <<>>]

\* {:?} of an f64
FmtDebug(a) ==
    IF a[2] = 1 THEN FmtI64(a[1]) \o <<".", "0">> ELSE FmtFraction(a)

\* impl Display for Value
ValueDisplay(x) ==
    CASE x.t = "Number" -> FmtDebug(x.v)
      [] x.t = "Nil" -> <<"N", "i", "l">>
      [] x.t = "Bool" ->
           IF x.v THEN <<"t", "r", "u", "e">> ELSE <<"f", "a", "l", "s", "e">>
      [] OTHER -> x.v

\* #[derive(PartialEq)] on Value
ValueEq(a, b) ==
    /\ a.t = b.t
    /\ CASE a.t = "Number" -> FEq(a.v, b.v)
         [] a.t = "Nil" -> TRUE
         [] OTHER -> a.v = b.v

\* Value::is_truthy
value_is_truthy(x) == (x.t = "Bool" /\ ~x.v) \/ x.t = "Nil"

\* Value::add, on operands the VM lets through
value_add(a, b) ==
    IF a.t = "Number" /\ b.t = "Number" THEN VNumber(FAdd(a.v, b.v))
    ELSE VString(ValueDisplay(a) \o ValueDisplay(b))

-----------------------------------------------------------------------------
(* Bytecode path: compiler.rs.  P is the Parser with the chunk it writes:  *)
(* [sc, current, previous, had_error, panic_mode, reported, chunk, panic]; *)
(* reported are the messages written to stderr, panic is a Rust panic,     *)
(* after which nothing else happens.                                       *)

\* Precedence, in ascending order; scan.rs holds the enum
PrecedenceOrder ==
    <<"None", "Assignment", "Or", "And", "Equality", "Comparison", "Term",
      "Factor", "Unary", "Call", "Primary">>

PrecedenceRank(p) == CHOOSE i \in 1..Len(PrecedenceOrder) : PrecedenceOrder[i] = p

\* Precedence::next
PrecedenceNext(p) == PrecedenceOrder[PrecedenceRank(p) + 1]

\* Precedence::can_assign
can_assign(p) == PrecedenceRank(p) <= PrecedenceRank("Assignment")

\* TokenType::precendence
precendence(ttype) ==
    CASE ttype \in {"Minus", "Plus"} -> "Term"
      [] ttype \in {"Slash", "Star"} -> "Factor"
      [] ttype \in {"BangEqual", "EqualEqual"} -> "Equality"
      [] ttype \in {"Greater", "GreaterEqual", "Less", "LessEqual"} ->
           "Comparison"
      [] OTHER -> "None"

\* Token::empty
TokenEmpty == Token("EoF", <<>>, 0)

\* Parser::error
bcomp_error(P, tok, message) ==
    IF P.panic \/ P.panic_mode THEN P
    ELSE [P EXCEPT !.panic_mode = TRUE, !.had_error = TRUE,
                   !.reported = Append(@, [line |-> tok.line,
                                           message |-> message])]

\* Parser::advance
RECURSIVE bcomp_advance(_, _)
bcomp_advance(src, P) ==
    LET scanned(t) ==
            IF t.panic THEN [P EXCEPT !.panic = TRUE, !.sc = t.sc]
            ELSE IF t.tok.ttype # "Error"
            THEN [P EXCEPT !.sc = t.sc, !.previous = P.current,
                           !.current = t.tok]
            ELSE bcomp_advance(src,
                   bcomp_error([P EXCEPT !.sc = t.sc], t.tok,
                               "Unexpected token"))
    IN  IF P.panic THEN P ELSE scanned(scan_token(src, P.sc))

\* Parser::new
ParserNew(src) ==
    bcomp_advance(src,
        [sc |-> ScannerNew,
         current |-> TokenEmpty, previous |-> TokenEmpty,
         had_error |-> FALSE, panic_mode |-> FALSE, reported |-> <<>>,
         chunk |-> ChunkNew, panic |-> FALSE])

\* Parser::match_token, when it is known whether current.ttype = ttype
check(P, ttype) == ~P.panic /\ P.current.ttype = ttype

match_token(src, P, ttype) ==
    IF check(P, ttype) THEN bcomp_advance(src, P) ELSE P

\* Parser::consume
consume(src, P, ttype, message) ==
    IF P.panic THEN P
    ELSE IF P.current.ttype # ttype THEN bcomp_error(P, P.current, message)
    ELSE bcomp_advance(src, P)

\* chunk.write(op.into(), self.previous.line)
emit(P, op) ==
    IF P.panic THEN P
    ELSE [P EXCEPT !.chunk = write_op(@, op, P.previous.line)]

\* the operand byte is not written
emit_u8_dropped(P, arg) == P

\* chunk.write(arg as u8, self.previous.line)
emit_u8(P, arg) ==
    IF P.panic THEN P
    ELSE [P EXCEPT !.chunk = write(@, arg % 256, P.previous.line)]


\* Parser::number
bcomp_number(P) ==
    IF P.panic THEN P
    ELSE [P EXCEPT !.chunk = write_constant(@,
                                VNumber(ParseF64(P.previous.lexeme).v),
                                P.previous.line)]

\* Parser::string
bcomp_string(P) ==
    IF P.panic THEN P
    ELSE [P EXCEPT !.chunk =
            write_constant(@,
                VConstString(SubSeq(P.previous.lexeme, 2,
                                    Len(P.previous.lexeme) - 1)),
                P.previous.line)]

RECURSIVE parse_precedence(_, _, _), infix_while(_, _, _),
          bcomp_expression(_, _), bcomp_unary(_, _), binary(_, _)

\* Parser::expression
bcomp_expression(src, P) == parse_precedence(src, P, "Assignment")

\* Parser::unary
bcomp_unary(src, P) ==
    LET operand(op, P1) == emit(P1, IF op = "Minus" THEN "Negate" ELSE "Not")
    IN  operand(P.previous.ttype, parse_precedence(src, P, "Unary"))

\* Parser::binary
binary(src, P) ==
    LET right(op, P1) ==
            CASE op = "Minus" -> emit(P1, "Subtract")
              [] op = "Plus" -> emit(P1, "Add")
              [] op = "Star" -> emit(P1, "Multiply")
              [] op = "Slash" -> emit(P1, "Divide")
              [] op = "BangEqual" -> emit(emit(P1, "Equal"), "Not")
              [] op = "EqualEqual" -> emit(P1, "Equal")
              [] op = "Greater" -> emit(P1, "Greater")
              [] op = "GreaterEqual" -> emit(emit(P1, "Greater"), "Not")
              [] op = "Less" -> emit(P1, "Less")
              [] op = "LessEqual" -> emit(emit(P1, "Less"), "Not")
    IN  right(P.previous.ttype,
              parse_precedence(src, P,
                  PrecedenceNext(precendence(P.previous.ttype))))

\* the `while prec <= self.current.ttype.precendence()` loop
infix_while(src, P, prec) ==
    LET infix(P1) ==
            IF P1.panic THEN P1
            ELSE IF P1.previous.ttype \in
                      {"Plus", "Minus", "Star", "Slash", "BangEqual",
                       "EqualEqual", "Greater", "GreaterEqual", "Less",
                       "LessEqual"}
            THEN infix_while(src, binary(src, P1), prec)
            ELSE infix_while(src, P1, prec)
    IN  IF P.panic THEN P
        ELSE IF PrecedenceRank(prec)
                  <= PrecedenceRank(precendence(P.current.ttype))
        THEN infix(bcomp_advance(src, P))
        ELSE P

\* Parser::parse_precedence
parse_precedence(src, P0, prec) ==
    LET invalid_target(M) ==
            bcomp_error(M, M.previous, "Invalid assign target")
        \* what follows the match on previous.ttype
        after_infix(W) ==
            IF can_assign(prec) /\ check(W, "Equal")
            THEN invalid_target(match_token(src, W, "Equal"))
            ELSE W
        \* the arm TokenType::Identifier, the name added to the constants
        variable(added, arg) ==
            IF can_assign(prec) /\ check(added, "Equal")
            THEN emit_u8(emit(bcomp_expression(src,
                                  match_token(src, added, "Equal")),
                              "SetGlobal"), arg)
            ELSE emit_u8(emit(added, "GetGlobal"), arg)
        named(added) == variable(added, Len(added.chunk.constants) - 1)
        \* the match on previous.ttype, where it does not return
        prefix(P, ttype) ==
            CASE ttype = "LeftParen" ->
                   consume(src, bcomp_expression(src, P), "RightParen",
                           "Expected ')' after expression")
              [] ttype \in {"Minus", "Bang"} -> bcomp_unary(src, P)
              [] ttype = "Number" -> bcomp_number(P)
              [] ttype = "String" -> bcomp_string(P)
              [] ttype = "Nil" -> emit(P, "Nil")
              [] ttype = "True" -> emit(P, "True")
              [] ttype = "False" -> emit(P, "False")
              [] ttype = "Identifier" ->
                   named([P EXCEPT !.chunk =
                            add_constant(@, VConstString(P.previous.lexeme))])
        advanced(P) ==
            IF P.panic THEN P
            ELSE IF P.previous.ttype \in
                      {"LeftParen", "Minus", "Bang", "Number", "String",
                       "Nil", "True", "False", "Identifier"}
            THEN after_infix(infix_while(src, prefix(P, P.previous.ttype),
                                         prec))
            ELSE bcomp_error(P, P.previous, "Expected expression")
    IN  advanced(bcomp_advance(src, P0))

\* Parser::print_statement
print_statement(src, P) ==
    emit(consume(src, bcomp_expression(src, P), "Semicolon",
                 "Expect ; after value."), "Print")

\* no Pop is written after an expression statement
bcomp_statement_no_pop(src, P) ==
    IF check(P, "Print")
    THEN print_statement(src, match_token(src, P, "Print"))
    ELSE consume(src, bcomp_expression(src, P), "Semicolon",
                 "Expect ';' after expression")

\* Parser::statement
bcomp_statement(src, P) ==
    IF check(P, "Print")
    THEN print_statement(src, match_token(src, P, "Print"))
    ELSE emit(consume(src, bcomp_expression(src, P), "Semicolon",
                      "Expect ';' after expression"), "Pop")

\* Parser::var_declaration
var_declaration(src, P0) ==
    LET defined(added) ==
            emit_u8(emit(added, "DefineGlobal"),
                    Len(added.chunk.constants) - 1)
        terminated(name, semi) ==
            IF semi.panic THEN semi
            ELSE defined([semi EXCEPT
                            !.chunk = add_constant(@, VConstString(name))])
        named(P) ==
            terminated(P.previous.lexeme,
                consume(src,
                        IF check(P, "Equal")
                        THEN bcomp_expression(src,
                                 match_token(src, P, "Equal"))
                        ELSE emit(P, "Nil"),
                        "Semicolon",
                        "Expected ';' after variable declaration."))
    IN  named(consume(src, P0, "Identifier", "Expected variable name."))

\* the while loop of Parser::synchronize
RECURSIVE synchronize_while(_, _)
synchronize_while(src, P) ==
    IF P.panic \/ P.current.ttype = "EoF" THEN P
    ELSE IF P.previous.ttype = "Semicolon" THEN P
    ELSE IF P.current.ttype \in {"Class", "Fun", "Var", "For", "If", "While",
                                 "Print", "Return"} THEN P
    ELSE synchronize_while(src, bcomp_advance(src, P))

\* Parser::synchronize
bcomp_synchronize(src, P) ==
    IF P.panic THEN P
    ELSE synchronize_while(src, [P EXCEPT !.panic_mode = FALSE])

\* Parser::declaration
declaration(src, P) ==
    LET declared(D) ==
            IF ~D.panic /\ D.panic_mode THEN bcomp_synchronize(src, D) ELSE D
    IN  declared(IF check(P, "Var")
                 THEN var_declaration(src, match_token(src, P, "Var"))
                 ELSE bcomp_statement(src, P))


-----------------------------------------------------------------------------
(* Bytecode path: vm.rs.  One turn of the dispatch loop of                 *)
(* VMInterpreter::run, from (chunk, ip, stack, globals), gives             *)
(* [kind, ip, stack, globals, printed]: kind "Next" (the loop goes on),    *)
(* "Ok" (Return), "Runtime" (Err(Error::Runtime)) or "Panic"; printed are  *)
(* the lines written to stdout during the turn.                            *)

VTurn(kind, ip, stack, globals, printed) ==
    [kind |-> kind, ip |-> ip, stack |-> stack, globals |-> globals,
     printed |-> printed]

\* Value::as_str: the text of a string constant; <<"panic">> otherwise
as_str(value) ==
    IF value.t \in {"ConstString", "String"} THEN value.v ELSE <<"panic">>

\* pop!: the stack without its top
Popped(stack) == SubSeq(stack, 1, Len(stack) - 1)

\* peek!(self, idx)
Peek(stack, idx) == stack[Len(stack) - idx]

IsString(x) == x.t \in {"String", "ConstString"}

\* Value::negate .. Value::less, on numbers
NumberOp(op, a, b) ==
    CASE op = "Subtract" -> VNumber(FSub(a.v, b.v))
      [] op = "Multiply" -> VNumber(FMul(a.v, b.v))
      [] op = "Divide" -> VNumber(FDiv(a.v, b.v))
      [] op = "Greater" -> VBool(FLess(b.v, a.v))
      [] op = "Less" -> VBool(FLess(a.v, b.v))

Dispatch(chunk, ip, stack, globals) ==
    LET code == chunk.code
        Defining ==
            <<"D", "e", "f", "i", "n", "i", "n", "g", ":", " ">>
        Getting ==
            <<"G", "e", "t", "t", "i", "n", "g", ":", " ">>
        Checking ==
            <<"C", "h", "e", "c", "k", "i", "n", "g", ":", " ">>
        Setting ==
            <<"S", "e", "t", "t", "i", "n", "g", ":", " ">>
        Panic(printed) == VTurn("Panic", ip, stack, globals, printed)
        Runtime(printed) == VTurn("Runtime", ip, stack, globals, printed)
        Next(n, s, g, printed) == VTurn("Next", ip + n, s, g, printed)
        op == OpFrom(code[ip + 1])
        \* read!(chunk, ip + 1) as usize, as a constant-pool index
        operand == code[ip + 2]
        HasConstant(index) == index < Len(chunk.constants)
        name == as_str(read_constant(chunk, operand))
        Named(arm) ==
            IF ip + 1 >= Len(code) THEN Panic(<<>>)
            ELSE IF ~HasConstant(operand) THEN Panic(<<>>)
            ELSE IF name = <<"panic">> THEN Panic(<<>>)
            ELSE arm
        \* binary_op!
        Binary(o) ==
            IF Len(stack) = 0 THEN Panic(<<>>)
            ELSE IF Peek(stack, 0).t # "Number" THEN Runtime(<<>>)
            ELSE IF Len(stack) = 1 THEN Panic(<<>>)
            ELSE IF Peek(stack, 1).t # "Number" THEN Runtime(<<>>)
            ELSE Next(1, Append(Popped(Popped(stack)),
                                NumberOp(o, Peek(stack, 1), Peek(stack, 0))),
                      globals, <<>>)
    IN  IF ip >= Len(code) THEN Panic(<<>>)
        ELSE CASE op = "Return" -> VTurn("Ok", ip, stack, globals, <<>>)
          [] op = "Constant" ->
               IF ip + 1 >= Len(code) \/ ~HasConstant(operand)
               THEN Panic(<<>>)
               ELSE Next(2, Append(stack, read_constant(chunk, operand)),
                         globals, <<>>)
          [] op = "ConstantLong" ->
               IF ip + 2 >= Len(code) THEN Panic(<<>>)
               ELSE LET index == long_index(code[ip + 2], code[ip + 3])
                    IN  IF ~HasConstant(index) THEN Panic(<<>>)
                        ELSE Next(3,
                               Append(stack, read_constant(chunk, index)),
                               globals,
                               <<ValueDisplay(read_constant(chunk, index))>>)
          [] op = "Negate" ->
               IF Len(stack) = 0 THEN Panic(<<>>)
               ELSE IF Peek(stack, 0).t # "Number" THEN Runtime(<<>>)
               ELSE Next(1, Append(Popped(stack),
                                   VNumber(FNeg(Peek(stack, 0).v))),
                         globals, <<>>)
          [] op = "Add" ->
               IF Len(stack) < 2 THEN Panic(<<>>)
               ELSE IF /\ ~IsString(Peek(stack, 0)) /\ ~IsString(Peek(stack, 1))
                       /\ (Peek(stack, 0).t # "Number"
                           \/ Peek(stack, 1).t # "Number")
               THEN Runtime(<<>>)
               ELSE Next(1, Append(Popped(Popped(stack)),
                                   value_add(Peek(stack, 1), Peek(stack, 0))),
                         globals, <<>>)
          [] op \in {"Subtract", "Multiply", "Divide", "Greater", "Less"} ->
               Binary(op)
          [] op = "Nil" -> Next(1, Append(stack, VNil), globals, <<>>)
          [] op = "True" -> Next(1, Append(stack, VBool(TRUE)), globals, <<>>)
          [] op = "False" ->
               Next(1, Append(stack, VBool(FALSE)), globals, <<>>)
          [] op = "Not" ->
               IF Len(stack) = 0 THEN Panic(<<>>)
               ELSE Next(1, Append(Popped(stack),
                                   VBool(~value_is_truthy(Peek(stack, 0)))),
                         globals, <<>>)
          [] op = "Equal" ->
               IF Len(stack) < 2 THEN Panic(<<>>)
               ELSE Next(1, Append(Popped(Popped(stack)),
                                   VBool(ValueEq(Peek(stack, 1),
                                                 Peek(stack, 0)))),
                         globals, <<>>)
          [] op = "Print" ->
               IF Len(stack) = 0 THEN Panic(<<>>)
               ELSE Next(1, Popped(stack), globals,
                         <<ValueDisplay(Peek(stack, 0))>>)
          [] op = "Pop" ->
               IF Len(stack) = 0 THEN Panic(<<>>)
               ELSE Next(1, Popped(stack), globals, <<>>)
          [] op = "DefineGlobal" ->
               Named(IF Len(stack) = 0
                     THEN Panic(<<Defining \o name>>)
                     ELSE Next(2, Popped(stack),
                               MapInsert(globals, name, Peek(stack, 0)),
                               <<Defining \o name>>))
          [] op = "GetGlobal" ->
               Named(IF name \notin DOMAIN globals
                     THEN Runtime(<<Getting \o name>>)
                     ELSE Next(2, Append(stack, globals[name]), globals,
                               <<Getting \o name>>))
          [] op = "SetGlobal" ->
               Named(IF name \notin DOMAIN globals
                     THEN Runtime(<<Checking \o name>>)
                     ELSE IF Len(stack) = 0
                     THEN Panic(<<Checking \o name,
                                  Setting \o name>>)
                     ELSE Next(2, stack,
                               MapInsert(globals, name, Peek(stack, 0)),
                               <<Checking \o name,
                                 Setting \o name>>))
          [] OTHER -> Panic(<<>>)


-----------------------------------------------------------------------------
(* Inputs of the scanner specification: every text of at most MaxScanWords *)
(* pieces, each piece one or two characters.                               *)

MaxScanWords == 4

ScanWords ==
    {<<"/", "*">>, <<"*", "/">>, <<"/">>, <<"\n">>, <<" ">>, <<"a">>,
     <<"1">>, <<".">>, <<"\"">>, <<"=">>}

RECURSIVE Flatten(_)
Flatten(ws) == IF ws = <<>> THEN <<>> ELSE Head(ws) \o Flatten(Tail(ws))

ScanSources ==
    {Flatten(ws) : ws \in UNION {[1..k -> ScanWords] : k \in 0..MaxScanWords}}

\* Inputs of the token specification, which runs both scanners on one text:
\* at most MaxTokenWords pieces, or one word with what may follow it.
MaxTokenWords == 3

TokenWords ==
    {<<"1">>, <<".">>, <<"\"">>, <<"\"", "\n">>, <<"\n">>, <<"/", "/">>,
     <<"/">>, <<" ">>, <<"a">>, <<"=">>, <<"!">>, <<"<">>, <<">">>, <<";">>}

\* the reserved words of scan.rs, in the order of TokenType
ReservedWords ==
    {<<"a", "n", "d">>, <<"c", "l", "a", "s", "s">>, <<"e", "l", "s", "e">>,
     <<"f", "a", "l", "s", "e">>, <<"f", "o", "r">>, <<"f", "u", "n">>,
     <<"i", "f">>, <<"n", "i", "l">>, <<"o", "r">>,
     <<"p", "r", "i", "n", "t">>, <<"r", "e", "t", "u", "r", "n">>,
     <<"s", "u", "p", "e", "r">>, <<"t", "h", "i", "s">>,
     <<"t", "r", "u", "e">>, <<"v", "a", "r">>,
     <<"w", "h", "i", "l", "e">>}

\* a reserved word, one cut short by a character, one longer by a character
Words ==
    ReservedWords
    \cup {SubSeq(w, 1, Len(w) - 1) : w \in ReservedWords}
    \cup {w \o <<"s">> : w \in ReservedWords}

TokenSources ==
    {Flatten(ws) : ws \in UNION {[1..k -> TokenWords] : k \in 0..MaxTokenWords}}
    \cup {w \o t : w \in Words, t \in {<<>>, <<" ">>, <<";">>}}

\* Inputs of the chunk specification: chunks a caller of VM::run assembles
\* with Chunk::write and Chunk::write_constant.  An operand is what leaves
\* one value on the stack: an opcode, a constant, or the concatenation of
\* two constants (the way a Value::String comes to be).
PushOp(op) == [kind |-> "Op", op |-> op]

PushConstant(value) == [kind |-> "Constant", value |-> value]

PushConcat(a, b) == [kind |-> "Concat", a |-> a, b |-> b]

Operands ==
    {PushOp("Nil"), PushOp("True"), PushOp("False"),
     PushConstant(VNumber(Frac(0, 1))), PushConstant(VNumber(Frac(1, 1))),
     PushConstant(VConstString(<<>>)), PushConstant(VConstString(<<"a">>)),
     PushConstant(VConstString(<<"a", "b">>)),
     PushConcat(VConstString(<<"a">>), VConstString(<<"b">>)),
     PushConcat(VConstString(<<>>), VConstString(<<"a">>)),
     PushConcat(VConstString(<<>>), VConstString(<<>>))}

WriteOperand(chunk, o) ==
    CASE o.kind = "Op" -> write_op(chunk, o.op, 1)
      [] o.kind = "Constant" -> write_constant(chunk, o.value, 1)
      [] o.kind = "Concat" ->
           write_op(write_constant(write_constant(chunk, o.a, 1), o.b, 1),
                    "Add", 1)

RECURSIVE WriteOps(_, _)
WriteOps(chunk, ops) ==
    IF ops = <<>> THEN chunk
    ELSE WriteOps(write_op(chunk, Head(ops), 1), Tail(ops))

TestChunks ==
    {WriteOps(WriteOperand(ChunkNew, a), ops) :
        a \in Operands,
        ops \in {<<"Not", "Return">>, <<"Not", "Print", "Return">>}}
    \cup
    {WriteOps(WriteOperand(WriteOperand(ChunkNew, a), b), ops) :
        a \in Operands, b \in Operands,
        ops \in {<<"Equal", "Print", "Return">>,
                 <<"Equal", "Not", "Print", "Return">>}}

MaxGlobalOps == 3

\* chunk.write(OpCode::X.into(), 1) and its operand, the index that
\* add_constant returned for the name
WriteNamed(chunk, op, name) ==
    LET added == add_constant(chunk, VConstString(name))
    IN  write(write_op(added, op, 1), Len(added.constants) - 1, 1)

\* what a declaration, an assignment and a use of a global compile to:
\* `var a = 1;`, `a = true` and `b = 0` (the value stays on the stack), `a`
\* and `b`
GlobalSteps ==
    {[push |-> <<PushConstant(VNumber(Frac(1, 1)))>>, op |-> "DefineGlobal",
      name |-> <<"a">>],
     [push |-> <<PushOp("True")>>, op |-> "SetGlobal", name |-> <<"a">>],
     [push |-> <<PushConstant(VNumber(Frac(0, 1)))>>, op |-> "SetGlobal",
      name |-> <<"b">>],
     [push |-> <<>>, op |-> "GetGlobal", name |-> <<"a">>],
     [push |-> <<>>, op |-> "GetGlobal", name |-> <<"b">>]}

WriteGlobalStep(chunk, g) ==
    WriteNamed(IF g.push = <<>> THEN chunk ELSE WriteOperand(chunk, g.push[1]),
               g.op, g.name)

RECURSIVE WriteGlobalSteps(_, _)
WriteGlobalSteps(chunk, gs) ==
    IF gs = <<>> THEN write_op(chunk, "Return", 1)
    ELSE WriteGlobalSteps(WriteGlobalStep(chunk, Head(gs)), Tail(gs))

GlobalChunks ==
    {WriteGlobalSteps(ChunkNew, gs) :
        gs \in UNION {[1..n -> GlobalSteps] : n \in 1..MaxGlobalOps}}

\* Inputs of the pool specification: a chunk whose pool holds n constants
\* already, n around the values at which the form of the index changes,
\* and the constant to write, which is not in the pool yet
PoolSizes ==
    (0..2) \cup (253..258) \cup (510..514) \cup {4095, 4096}
    \cup ((ByteValues * ByteValues - 3)..(ByteValues * ByteValues - 1))

PoolFiller == VNumber(Frac(0, 1))

PoolValues == {VNumber(Frac(1, 1)), VConstString(<<"a">>), VBool(TRUE)}

PoolOf(n) == [ChunkNew EXCEPT !.constants = [i \in 1..n |-> PoolFiller]]

\* Inputs of the evaluator specification: statement lists a caller of
\* Interpreter::interpret builds.  `var a = 0;` comes first; an operand is
\* a literal, the assignment `a = 1` (a side effect) or the undefined
\* variable `u` (a runtime error).
EvalLiterals ==
    {LBool(TRUE), LBool(FALSE), LNil, LNumber(0, 1), LString(<<>>)}

EvalOperands ==
    {ELiteral(Loc(2, 9), LNumber(2, 1)),
     EAssignment(Loc(2, 9), <<"a">>, ELiteral(Loc(2, 13), LNumber(1, 1))),
     EVariable(Loc(2, 9), <<"u">>)}

\* `print <literal> or <operand>;` and `print <literal> and <operand>;`
LogicPrograms ==
    {<<SVarDecl(<<"a">>, Loc(1, 4), ELiteral(Loc(1, 8), LNumber(0, 1))),
       SPrint(EBinary(Loc(2, 6), ELiteral(Loc(2, 6), l), op, r))>> :
        l \in EvalLiterals, op \in {"Or", "And"}, r \in EvalOperands}

MaxArgs == 2

EvalCallees ==
    {EVariable(Loc(3, 0), <<"f">>), EVariable(Loc(3, 0), <<"u">>),
     ELiteral(Loc(3, 0), LNumber(1, 1))}

\* `fun f(<params>) { print "f"; }` and a call `<callee>(<operands>);`
CallPrograms ==
    {<<SVarDecl(<<"a">>, Loc(1, 4), ELiteral(Loc(1, 8), LNumber(0, 1))),
       SFunDecl(<<"f">>, params,
                SBlock(<<SPrint(ELiteral(Loc(2, 16), LString(<<"f">>)))>>)),
       SExpression(ECall(Loc(3, 1), callee, args))>> :
        params \in {<<>>, <<<<"p">>>>},
        callee \in EvalCallees,
        args \in UNION {[1..k -> EvalOperands] : k \in 0..MaxArgs}}

MaxBody == 2

\* The building blocks of a function body, each with what it prints and
\* what it returns (NoLit: it runs to its end) when it runs with a < 2:
\* a Return at the top of the body, in the branches of an if, in a block in
\* a block, and in a while loop, each followed by a print that must not run.
ReturnBlocks ==
    LET num(n) == ELiteral(Loc(2, 0), LNumber(n, 1))
        str(c) == ELiteral(Loc(2, 0), LString(<<c>>))
        a == EVariable(Loc(2, 0), <<"a">>)
        bool(b) == ELiteral(Loc(2, 0), LBool(b))
        dead == SPrint(str("d"))
        piece(s, prints, returns) ==
            [s |-> s, prints |-> prints, returns |-> returns]
    IN  {piece(SPrint(str("x")), <<<<"x">>>>, NoLit),
         piece(SReturn(num(1)), <<>>, LNumber(1, 1)),
         piece(SIf(bool(TRUE), SReturn(num(2)), NoStmt), <<>>,
               LNumber(2, 1)),
         piece(SIf(bool(FALSE), SReturn(num(3)),
                   SBlock(<<SReturn(num(4)), dead>>)), <<>>, LNumber(4, 1)),
         piece(SIf(bool(FALSE), SReturn(num(3)), NoStmt), <<>>,
               NoLit),
         piece(SWhile(EBinary(Loc(2, 0), a, "Less", num(2)),
                      SBlock(<<SExpression(
                                 EAssignment(Loc(2, 0), <<"a">>,
                                   EBinary(Loc(2, 0), a, "Plus", num(1)))),
                               SIf(EBinary(Loc(2, 0), a, "EqualEq", num(2)),
                                   SBlock(<<SReturn(a), dead>>),
                                   NoStmt),
                               SPrint(a)>>)),
               <<<<"1">>>>, LNumber(2, 1)),
         piece(SBlock(<<SBlock(<<SReturn(num(5))>>), dead>>), <<>>,
               LNumber(5, 1)),
         piece(SWhile(bool(TRUE),
                      SBlock(<<SBlock(<<SIf(bool(TRUE), SReturn(num(6)),
                                            NoStmt)>>),
                               dead>>)),
               <<>>, LNumber(6, 1)),
         piece(SWhile(bool(FALSE), SReturn(num(7))), <<>>, NoLit)}

ReturnBodies == UNION {[1..n -> ReturnBlocks] : n \in 1..MaxBody}

\* `var a = 0; fun f() { <body> } print f(); print "e";`
ReturnProgram(body) ==
    <<SVarDecl(<<"a">>, Loc(1, 4), ELiteral(Loc(1, 8), LNumber(0, 1))),
      SFunDecl(<<"f">>, <<>>, SBlock([i \in 1..Len(body) |-> body[i].s])),
      SPrint(ECall(Loc(3, 7), EVariable(Loc(3, 6), <<"f">>), <<>>)),
      SPrint(ELiteral(Loc(4, 6), LString(<<"e">>)))>>

ReturnPrograms == {ReturnProgram(body) : body \in ReturnBodies}

EvalPrograms == LogicPrograms \cup CallPrograms \cup ReturnPrograms

\* Inputs of the resolver specification: statement lists a caller of
\* Resolver::resolve builds.  The declarations: `var a;`, `var b;` and
\* `fun f() {..}` at the top level and in blocks, once and twice in a scope.
MaxDecls == 3

DeclStatements ==
    LET var(name, l) == SVarDecl(<<name>>, Loc(l, 4), NoExpr)
    IN  {var("a", 1), var("a", 2), var("b", 1),
         SBlock(<<var("a", 3)>>),
         SBlock(<<var("a", 3), var("a", 4)>>),
         SBlock(<<var("a", 3), var("b", 4)>>),
         SBlock(<<var("a", 3), SBlock(<<var("a", 4)>>), var("b", 5),
                  var("b", 6)>>),
         SFunDecl(<<"f">>, <<>>, SBlock(<<var("a", 3), var("a", 4)>>)),
         SBlock(<<SFunDecl(<<"f">>, <<>>, SBlock(<<var("b", 3)>>)),
                  var("f", 4)>>)}

DeclPrograms == UNION {[1..n -> DeclStatements] : n \in 1..MaxDecls}

\* The uses of variables, by the line l of the statement: declarations,
\* reads and assignments at the top level, in a block, in a function and
\* its call, and a declaration as the branch of an if that is not taken.
MaxUses == 3

UseKinds ==
    {"var a", "print a", "a = 2", "block", "if var c", "print c", "fun f",
     "f()", "closure"}

UseStatement(kind, l) ==
    LET num(n, p) == ELiteral(Loc(l, p), LNumber(n, 1))
        use(name, p) == EVariable(Loc(l, p), <<name>>)
        assign(name, p, n) == EAssignment(Loc(l, p), <<name>>, num(n, p + 4))
        var(name, p, e) == SVarDecl(<<name>>, Loc(l, p), e)
    IN  CASE kind = "var a" -> var("a", 4, num(1, 8))
          [] kind = "print a" -> SPrint(use("a", 6))
          [] kind = "a = 2" -> SExpression(assign("a", 0, 2))
          [] kind = "block" ->
               SBlock(<<var("b", 6, use("a", 10)), SPrint(use("b", 19)),
                        SExpression(assign("a", 22, 3))>>)
          [] kind = "if var c" ->
               SIf(ELiteral(Loc(l, 4), LBool(FALSE)), var("c", 15, num(1, 19)),
                   NoStmt)
          [] kind = "print c" -> SPrint(use("c", 6))
          [] kind = "fun f" ->
               SFunDecl(<<"f">>, <<>>,
                        SBlock(<<SPrint(use("a", 16)),
                                 SExpression(assign("a", 19, 4))>>))
          [] kind = "f()" ->
               SExpression(ECall(Loc(l, 1), use("f", 0), <<>>))
          [] OTHER ->
               SBlock(<<var("a", 6, num(5, 10)),
                        SFunDecl(<<"g">>, <<>>,
                                 SBlock(<<SExpression(assign("a", 25, 6)),
                                          SPrint(use("a", 38))>>)),
                        SExpression(ECall(Loc(l, 44), use("g", 43), <<>>)),
                        SPrint(use("a", 54))>>)

UsePrograms ==
    UNION {{[i \in 1..n |-> UseStatement(kinds[i], i)] :
               kinds \in [1..n -> UseKinds]} : n \in 1..MaxUses}

ResolvePrograms == DeclPrograms \cup UsePrograms

\* Inputs of the environment specification: chains of at most MaxChain
\* environments, each the parent of the next, the receiver being the last;
\* each binds some of the names a and b.
MaxChain == 3

EnvNames == {<<"a">>, <<"b">>}

EnvFrames ==
    {<<>>,
     <<"a">> :> LNumber(1, 1),
     <<"b">> :> LNumber(2, 1),
     (<<"a">> :> LNumber(1, 1)) @@ (<<"b">> :> LNumber(2, 1))}

EnvChains ==
    UNION {{[i \in 1..n |-> [parent |-> i - 1, values |-> frames[i]]] :
               frames \in [1..n -> EnvFrames]} : n \in 1..MaxChain}

\* Inputs of the parser specification: `for (<initializer> <condition>;
\* <increment>) <body>`, each part a text with the tree the parser builds
\* for it on its own, its locations left out (L0); NoStmt and NoExpr stand
\* for a part that is left out.
L0 == Loc(0, 0)

ForPart(text, tree) == [text |-> text, tree |-> tree]

ForInitializers ==
    {ForPart(<<";">>, NoStmt),
     ForPart(<<"v", "a", "r", " ", "i", " ", "=", " ", "0", ";">>,
             SVarDecl(<<"i">>, L0, ELiteral(L0, LNumber(0, 1)))),
     ForPart(<<"i", " ", "=", " ", "0", ";">>,
             SExpression(EAssignment(L0, <<"i">>,
                                     ELiteral(L0, LNumber(0, 1))))),
     ForPart(<<"-", "1", ";">>,
             SExpression(EUnary(L0, "Minus", ELiteral(L0, LNumber(1, 1)))))}

ForConditions ==
    {ForPart(<<>>, NoExpr),
     ForPart(<<" ", "i", " ", "<", " ", "2">>,
             EBinary(L0, EVariable(L0, <<"i">>), "Less",
                     ELiteral(L0, LNumber(2, 1))))}

ForIncrements ==
    {ForPart(<<>>, NoStmt),
     ForPart(<<" ", "i", " ", "=", " ", "i", " ", "+", " ", "1">>,
             SExpression(
               EAssignment(L0, <<"i">>,
                           EBinary(L0, EVariable(L0, <<"i">>), "Plus",
                                   ELiteral(L0, LNumber(1, 1))))))}

ForBodies ==
    {ForPart(<<"p", "r", "i", "n", "t", " ", "i", ";">>,
             SPrint(EVariable(L0, <<"i">>))),
     ForPart(<<"{", " ", "p", "r", "i", "n", "t", " ", "i", ";", " ", "}">>,
             SBlock(<<SPrint(EVariable(L0, <<"i">>))>>))}

ForSource(initializer, condition, increment, body) ==
    <<"f", "o", "r", " ", "(">> \o initializer.text \o condition.text
    \o <<";">> \o increment.text \o <<")", " ">> \o body.text

ForSources ==
    {ForSource(i, c, n, b) :
        i \in ForInitializers, c \in ForConditions, n \in ForIncrements,
        b \in ForBodies}

-----------------------------------------------------------------------------
(* Inputs of the run specification: the source files given to Lox::run and *)
(* to VM::interpret.  A source is a sequence of at most MaxStmts basic    *)
(* statements separated by a blank, or one of two closure programs         *)
(* followed by at most MaxCalls calls.                                     *)

MaxStmts == 3

MaxCalls == 3

\* print 1;
SrcPrintOne ==
    <<"p", "r", "i", "n", "t", " ", "1", ";">>

\* print "a";
SrcPrintString ==
    <<"p", "r", "i", "n", "t", " ", "\"", "a", "\"", ";">>

\* print 1/2;
SrcPrintHalf ==
    <<"p", "r", "i", "n", "t", " ", "1", "/", "2", ";">>

\* print nil;
SrcPrintNil ==
    <<"p", "r", "i", "n", "t", " ", "n", "i", "l", ";">>

\* var a;
SrcVarA ==
    <<"v", "a", "r", " ", "a", ";">>

\* print a;
SrcPrintA ==
    <<"p", "r", "i", "n", "t", " ", "a", ";">>

\* 1+2;
SrcExprStmt ==
    <<"1", "+", "2", ";">>

\* print ;
SrcPrintNothing ==
    <<"p", "r", "i", "n", "t", " ", ";">>

\* print 1
SrcPrintUnfinished ==
    <<"p", "r", "i", "n", "t", " ", "1">>

\* { var b = 1; { var b = b; print b; } }
SrcSelfInit ==
    <<"{", " ", "v", "a", "r", " ", "b", " ", "=", " ", "1", ";", " ",
      "{", " ", "v", "a", "r", " ", "b", " ", "=", " ", "b", ";", " ",
      "p", "r", "i", "n", "t", " ", "b", ";", " ", "}", " ", "}">>

BasicStatements ==
    {SrcPrintOne, SrcPrintString, SrcPrintHalf, SrcPrintNil, SrcVarA, SrcPrintA,
     SrcExprStmt, SrcPrintNothing, SrcPrintUnfinished, SrcSelfInit}

\* the counter program: make, and two closures made by it
SrcMake ==
    <<"f", "u", "n", " ", "m", "a", "k", "e", "(", "n", ")", " ", "{",
      " ", "f", "u", "n", " ", "i", "n", "c", "(", ")", " ", "{", " ",
      "n", " ", "=", " ", "n", " ", "+", " ", "1", ";", " ", "r", "e",
      "t", "u", "r", "n", " ", "n", ";", " ", "}", " ", "r", "e", "t",
      "u", "r", "n", " ", "i", "n", "c", ";", " ", "}", " ", "v", "a",
      "r", " ", "c", " ", "=", " ", "m", "a", "k", "e", "(", "1", ")",
      ";", " ", "v", "a", "r", " ", "d", " ", "=", " ", "m", "a", "k",
      "e", "(", "5", ")", ";">>

SrcCallC ==
    <<" ", "p", "r", "i", "n", "t", " ", "c", "(", ")", ";">>

SrcCallD ==
    <<" ", "p", "r", "i", "n", "t", " ", "d", "(", ")", ";">>

\* two functions declared in one scope that assign the same x
SrcShared ==
    <<"v", "a", "r", " ", "x", " ", "=", " ", "1", ";", " ", "f", "u",
      "n", " ", "f", "(", ")", " ", "{", " ", "x", " ", "=", " ", "x",
      " ", "+", " ", "1", ";", " ", "r", "e", "t", "u", "r", "n", " ",
      "x", ";", " ", "}", " ", "f", "u", "n", " ", "g", "(", ")", " ",
      "{", " ", "x", " ", "=", " ", "x", " ", "+", " ", "x", ";", " ",
      "r", "e", "t", "u", "r", "n", " ", "x", ";", " ", "}">>

SrcCallF ==
    <<" ", "p", "r", "i", "n", "t", " ", "f", "(", ")", ";">>

SrcCallG ==
    <<" ", "p", "r", "i", "n", "t", " ", "g", "(", ")", ";">>

SrcReadX ==
    <<" ", "p", "r", "i", "n", "t", " ", "x", ";">>


\* the texts of at most n pieces taken from ws
Pieces(ws, n) == UNION {[1..k -> ws] : k \in 0..n}

\* the pieces with a blank between them
RECURSIVE Join(_)
Join(ws) ==
    IF ws = <<>> THEN <<>>
    ELSE IF Len(ws) = 1 THEN ws[1]
    ELSE ws[1] \o <<" ">> \o Join(Tail(ws))

\* VM.globals before VM::interpret: empty for a file (VM::new), and what
\* an earlier line of the prompt left for a later line
GlobalsBefore ==
    {<<>>, (<<"a">> :> [t |-> "Number", v |-> <<1, 1>>])}

\* Inputs of the compiler specification: the sources VM::interpret is
\* given, at most MaxCompile of these statements with a blank between
\* them.  The scanner makes a two-character operator of `<`, `>`, `=` and
\* `!` followed by a blank; `@` is an Error token.
MaxCompile == 2

CompileStatements ==
    {<<"p", "r", "i", "n", "t", " ", "1", ";">>,
     <<"v", "a", "r", " ", "a", " ", "=", " ", "1", ";">>,
     <<"v", "a", "r", " ", "a", ";">>,
     <<"a", " ", "=", " ", "2", ";">>,
     <<"p", "r", "i", "n", "t", " ", "a", ";">>,
     <<"p", "r", "i", "n", "t", " ", "-", "a", " ", "+", " ", "1", ";">>,
     <<"p", "r", "i", "n", "t", " ", "!", "a", ";">>,
     <<"p", "r", "i", "n", "t", " ", "1", " ", "<", " ", "2", ";">>,
     <<"p", "r", "i", "n", "t", " ", "1", " ", ">", " ", "2", ";">>,
     <<"p", "r", "i", "n", "t", " ", "1", " ", "=", " ", "2", ";">>,
     <<"p", "r", "i", "n", "t", " ", "1", " ", "!", " ", "2", ";">>,
     <<"p", "r", "i", "n", "t", " ", "\"", "s", "\"", " ", "+", " ", "\"",
       "t", "\"", ";">>,
     <<"p", "r", "i", "n", "t", " ", ";">>,
     <<"p", "r", "i", "n", "t", " ", "1", " ", "1", " ", "@", " ", ";">>,
     <<"1", " ", "+", ";">>,
     <<"@">>}

\* `1; ` as often as a byte has values, so that the pool holds that many
\* constants, and then `var a;`
FullPoolSource ==
    [i \in 1..(3 * ByteValues) |-> <<"1", ";", " ">>[((i - 1) % 3) + 1]]
    \o <<"v", "a", "r", " ", "a", ";">>

CompileSources ==
    {Join(ws) : ws \in Pieces(CompileStatements, MaxCompile)}
    \cup {FullPoolSource}

\* one statement of every form
WholeStatements ==
    {<<"i", "f", " ", "(", "a", ")", " ", "p", "r", "i", "n", "t", " ", "1",
       ";", " ", "e", "l", "s", "e", " ", "a", ";">>,
     <<"w", "h", "i", "l", "e", " ", "(", "a", ")", " ", "a", " ", "=", " ",
       "1", ";">>,
     <<"f", "o", "r", " ", "(", "v", "a", "r", " ", "i", ";", " ", "i", ";",
       " ", "i", ")", " ", "i", ";">>,
     <<"f", "o", "r", " ", "(", ";", ";", ")", " ", "i", ";">>,
     <<"f", "u", "n", " ", "f", "(", "a", ",", " ", "b", ")", " ", "{", " ",
       "r", "e", "t", "u", "r", "n", " ", "a", ";", " ", "}">>,
     <<"v", "a", "r", " ", "a", " ", "=", " ", "-", "1", ";">>,
     <<"f", "(", "1", ",", " ", "2", ")", "(", ")", ";">>,
     <<"{", " ", "p", "r", "i", "n", "t", " ", "(", "1", " ", "+", " ", "2",
       ")", ";", " ", "}">>}

\* the statements cut off after any number of characters
TruncatedSources ==
    UNION {{SubSeq(w, 1, n) : n \in 0..Len(w)} : w \in WholeStatements}

\* `f(1, 1, .., 1);` with n arguments, the separator a comma or a blank
CallSource(n, separator) ==
    <<"f", "(">>
    \o [i \in 1..(2 * n - 1) |-> IF i % 2 = 1 THEN "1" ELSE separator]
    \o <<")", ";">>

\* calls of one to four arguments with and without commas, and
\* `f(1, 1 1);` with a comma and then a blank
CallSources ==
    {CallSource(n, separator) : n \in 1..4, separator \in {",", " "}}
    \cup {<<"f", "(", "1", ",", " ", "1", " ", "1", ")", ";">>}

MaxSync == 3

\* statements of both grammars, whole and broken; the tokens of
\* `var a = 1;` are not the same from the two scanners
SyncStatements ==
    {<<"p", "r", "i", "n", "t", " ", "1", ";">>,
     <<"p", "r", "i", "n", "t", " ", "1">>,
     <<"p", "r", "i", "n", "t", " ", ";">>,
     <<"1", " ", "2", ";">>,
     <<"a", ";">>,
     <<";">>,
     <<"v", "a", "r", " ", "a", ";">>,
     <<"v", "a", "r", " ", "1", ";">>,
     <<"v", "a", "r", " ", "a", " ", "=", " ", "1", ";">>}

SyncSources == {Join(ws) : ws \in Pieces(SyncStatements, MaxSync)}

\* the largest number of statements of a text given to the loop of parse
MaxLoop == 3

\* statements that parse and statements that fail: with their first token
\* taken, with no token taken, at a later token and at the end of the text
LoopStatements ==
    {<<";">>,
     <<"v", "a", "r", " ", "a", ";">>,
     <<")">>,
     <<"p", "r", "i", "n", "t", " ", "1">>}

LoopSources == {Join(ws) : ws \in Pieces(LoopStatements, MaxLoop)}

ParseSources ==
    ForSources \cup TruncatedSources \cup CallSources \cup SyncSources

\* a file of at most MaxStmts statements; a line of the prompt, the earlier
\* line counted as one statement; the two closure programs and their calls
Programs ==
    {[family |-> "basic", parts |-> ws, block |-> FALSE, globals |-> <<>>] :
        ws \in Pieces(BasicStatements, MaxStmts)}
    \cup
    {[family |-> "basic", parts |-> ws, block |-> FALSE, globals |-> g] :
        ws \in Pieces(BasicStatements, MaxStmts - 1),
        g \in GlobalsBefore \ {<<>>}}
    \cup
    {[family |-> "make", parts |-> ws, block |-> FALSE, globals |-> <<>>] :
        ws \in Pieces({SrcCallC, SrcCallD}, MaxCalls)}
    \cup
    {[family |-> "shared", parts |-> ws, block |-> b, globals |-> <<>>] :
        ws \in Pieces({SrcCallF, SrcCallG, SrcReadX}, MaxCalls),
        b \in BOOLEAN}

SourceOf(i) ==
    CASE i.family = "basic" -> Join(i.parts)
      [] i.family = "make" -> SrcMake \o Flatten(i.parts)
      [] i.family = "shared" ->
           IF i.block
           THEN <<"{", " ">> \o SrcShared \o Flatten(i.parts) \o <<" ", "}">>
           ELSE SrcShared \o Flatten(i.parts)
      [] OTHER -> i.parts

-----------------------------------------------------------------------------
(* The tree path, treewalk Lox::run.  One action per turn of each of its   *)
(* loops: Parser::parse, Resolver::resolve, Interpreter::interpret.        *)

MaxFuel == 6

\* a line of stdout and the statement or opcode that wrote it
Line(by, text) == [by |-> by, text |-> text]

Lines(by, texts) == [i \in 1..Len(texts) |-> Line(by, texts[i])]

\* #[error(..)] of resolver::Error, after "Resolver Error: "
ResolverErrorDisplay(e) ==
    LET head ==
            <<"R", "e", "s", "o", "l", "v", "e", "r", " ", "E", "r", "r",
              "o", "r", ":", " ">>
        initializer ==
            <<"C", "a", "n", "'", "t", " ", "r", "e", "a", "d", " ", "l",
              "o", "c", "a", "l", " ", "v", "a", "r", "i", "a", "b", "l",
              "e", " ", "'">>
        undefined ==
            <<"A", "c", "c", "e", "s", "s", " ", "u", "n", "d", "e", "c",
              "l", "a", "r", "e", "d", " ", "v", "a", "r", "i", "a", "b",
              "l", "e", " ", "'">>
        duplicate ==
            <<"D", "u", "p", "l", "i", "c", "a", "t", "e", " ", "v", "a",
              "r", "i", "a", "b", "l", "e", " ", "'">>
        own ==
            <<"'", " ", "i", "n", " ", "i", "t", "s", " ", "o", "w", "n",
              " ", "i", "n", "i", "t", "i", "a", "l", "i", "z", "e", "r">>
        found ==
            <<"'", " ", "f", "o", "u", "n", "d", " ", "i", "n", " ", "s",
              "c", "o", "p", "e">>
        at ==
            <<" ", "a", "t", " ", "l", "i", "n", "e", " ">>
        where == at \o FmtI64(e.location.line) \o <<":">>
                    \o FmtI64(e.location.pos)
    IN  CASE e.kind = "AccessInInitializer" ->
               head \o initializer \o e.name \o own \o where
          [] e.kind = "AccessUndefined" ->
               head \o undefined \o e.name \o <<"'">> \o where
          [] OTHER -> head \o duplicate \o e.name \o found \o where

\* Scanner::new().scan(file).map_err(Error::Scanner)?
RunScan ==
    /\ pc = "scan"
    /\ \E r \in {Scan(source)} :
          /\ tokens' = IF r.ok THEN r.tokens ELSE <<>>
          /\ scanErrors' = r.errors
          /\ pc' = IF r.ok THEN "parse" ELSE "scan_error"
          /\ result' = IF r.ok THEN "" ELSE "Scanner"
    /\ UNCHANGED <<input, source, pCursor, statements, parseErrors, rScopes,
                   rLocals, resolved, iHeap, executed, iRes, out, byteVars, scanVars>>

\* Parser::parse: one turn of its while loop
ParseStatement ==
    /\ pc = "parse"
    /\ pCursor < Len(tokens)
    /\ Tk(tokens, pCursor).ttype # "EoF"
    /\ \E r \in {statement(tokens, pCursor)} :
          CASE r.st = "Ok" ->
                 /\ statements' = Append(statements, r.v)
                 /\ pCursor' = r.cursor
                 /\ UNCHANGED <<parseErrors, pc, result>>
            [] r.st = "Err" ->
                 /\ parseErrors' = Append(parseErrors, r.v)
                 /\ pCursor' = synchronize(tokens, r.cursor + 1)
                 /\ UNCHANGED <<statements, pc, result>>
            [] OTHER ->
                 /\ pc' = "done"
                 /\ result' = "Panic"
                 /\ UNCHANGED <<statements, parseErrors, pCursor>>
    /\ UNCHANGED <<input, source, tokens, scanErrors, rScopes, rLocals,
                   resolved, iHeap, executed, iRes, out, byteVars, scanVars>>

\* Parser::parse after its loop, and the start of Resolver::resolve
ParseEnd ==
    /\ pc = "parse"
    /\ ~(pCursor < Len(tokens) /\ Tk(tokens, pCursor).ttype # "EoF")
    /\ IF parseErrors = <<>>
       THEN /\ pc' = "resolve"
            /\ rScopes' = builtin_clock(<<<<>>>>)
            /\ UNCHANGED result
       ELSE /\ pc' = "done"
            /\ result' = "Parser"
            /\ UNCHANGED rScopes
    /\ UNCHANGED <<input, source, tokens, scanErrors, pCursor, statements,
                   parseErrors, rLocals, resolved, iHeap, executed, iRes, out,
                   byteVars, scanVars>>

\* Resolver::resolve: one turn of its for loop
ResolveStatement ==
    /\ pc = "resolve"
    /\ resolved < Len(statements)
    /\ \E r \in {ResolveStmt(statements[resolved + 1], rScopes, rLocals)} :
          /\ rScopes' = r.scopes
          /\ rLocals' = r.locals
          /\ out' = IF r.ok THEN out
                    ELSE Append(out, Line("Resolver",
                                          ResolverErrorDisplay(r.err)))
    /\ resolved' = resolved + 1
    /\ UNCHANGED <<input, source, pc, tokens, scanErrors, pCursor, statements,
                   parseErrors, iHeap, executed, iRes, result, byteVars, scanVars>>

\* Interpreter::new_with_locals(rLocals)
ResolveEnd ==
    /\ pc = "resolve"
    /\ resolved = Len(statements)
    /\ pc' = "interpret"
    /\ iHeap' = <<[parent |-> 0, values |-> <<>>]>>
    /\ UNCHANGED <<input, source, tokens, scanErrors, pCursor, statements,
                   parseErrors, rScopes, rLocals, resolved, executed, iRes, out,
                   result, byteVars, scanVars>>

\* Interpreter::interpret: one turn of its for loop
InterpretStatement ==
    /\ pc = "interpret"
    /\ executed < Len(statements)
    /\ \E r \in {Execute(statements[executed + 1], 1, rLocals,
                         [heap |-> iHeap, out |-> <<>>, fstack |-> <<"None">>,
                          fuel |-> MaxFuel])} :
          /\ iHeap' = r.S.heap
          /\ out' = out \o Lines("Print", r.S.out)
          /\ CASE r.st = "Ok" ->
                    /\ iRes' = r.v
                    /\ executed' = executed + 1
                    /\ UNCHANGED <<pc, result>>
               [] OTHER ->
                    /\ pc' = "done"
                    /\ result' = IF r.st = "Err" THEN "Runtime" ELSE "Diverge"
                    /\ UNCHANGED <<iRes, executed>>
    /\ UNCHANGED <<input, source, tokens, scanErrors, pCursor, statements,
                   parseErrors, rScopes, rLocals, resolved, byteVars, scanVars>>

\* Lox::run after Interpreter::interpret
InterpretEnd ==
    /\ pc = "interpret"
    /\ executed = Len(statements)
    /\ out' = IF iRes.t # "None"
              THEN Append(out, Line("Result", LiteralDisplay(iRes)))
              ELSE out
    /\ pc' = "done"
    /\ result' = "Ok"
    /\ UNCHANGED <<input, source, tokens, scanErrors, pCursor, statements,
                   parseErrors, rScopes, rLocals, resolved, iHeap, executed,
                   iRes, byteVars, scanVars>>

TreeDone == pc \in {"scan_error", "done"}

-----------------------------------------------------------------------------
(* The bytecode path, VM::interpret.  It is a program of its own; here it  *)
(* runs on the same source once the tree path has returned.                *)

\* no Return is written after the last declaration
compile_end_no_return(src, P) ==
    consume(src, match_token(src, P, "EoF"), "EoF",
            "Expected end of expression")

\* Compiler::compile after its while loop (the value it returns is
\* !had_error)
compile_end(src, P) ==
    emit(consume(src, match_token(src, P, "EoF"), "EoF",
                 "Expected end of expression"), "Return")

\* the parser after a step of Compiler::compile; a Rust panic ends the run
Compiled(P, next) ==
    /\ parser' = P
    /\ bpc' = IF P.panic THEN "done" ELSE next
    /\ bresult' = IF P.panic THEN "Panic"
                  ELSE IF next = "done" THEN "Compiler" ELSE ""

\* Chunk::new(), Scanner::new(source), Parser::new(scanner)
CompileBegin ==
    /\ TreeDone
    /\ bpc = "start"
    /\ Compiled(ParserNew(source), "compile")
    /\ UNCHANGED <<input, source, treeVars, vmIp, vmStack, vmGlobals, vout,
                   trace, scanVars>>

\* Compiler::compile: one turn of its while loop
CompileDeclaration ==
    /\ bpc = "compile"
    /\ ~check(parser, "EoF")
    /\ Compiled(declaration(source, parser), "compile")
    /\ UNCHANGED <<input, source, treeVars, vmIp, vmStack, vmGlobals, vout,
                   trace, scanVars>>

\* Compiler::compile from the match that ends its loop, and VM::interpret
\* up to VM::run
CompileEnd ==
    /\ bpc = "compile"
    /\ check(parser, "EoF")
    /\ \E P \in {compile_end(source, parser)} :
          Compiled(P, IF P.had_error THEN "done" ELSE "run")
    /\ UNCHANGED <<input, source, treeVars, vmIp, vmStack, vmGlobals, vout,
                   trace, scanVars>>

\* VMInterpreter::run: one turn of its loop
VMStep ==
    /\ bpc = "run"
    /\ \E t \in {Dispatch(parser.chunk, vmIp, vmStack, vmGlobals)} :
          /\ vmIp' = t.ip
          /\ vmStack' = t.stack
          /\ vmGlobals' = t.globals
          /\ vout' = vout \o Lines(OpFrom(parser.chunk.code[vmIp + 1]),
                                   t.printed)
          /\ trace' = Append(trace, vmIp)
          /\ bpc' = IF t.kind = "Next" THEN "run" ELSE "done"
          /\ bresult' = IF t.kind = "Next" THEN "" ELSE t.kind
    /\ UNCHANGED <<input, source, treeVars, parser, scanVars>>

\* chunk.write_constant(value, 1); chunk.write(OpCode::Return.into(), 1);
\* VM::new().run(chunk)
WriteConstant ==
    /\ bpc = "write"
    /\ parser' = [parser EXCEPT
                     !.chunk = write_op(write_constant(@, input.parts[1], 1),
                                        "Return", 1)]
    /\ bpc' = "run"
    /\ UNCHANGED <<input, source, treeVars, vmIp, vmStack, vmGlobals, vout,
                   trace, bresult, scanVars>>

\* a call of Environment::get_at on the last environment of the chain
GetAt(name, depth) ==
    /\ pc = "env"
    /\ \E r \in {get_at(iHeap, Len(iHeap), name, depth)} :
          /\ iRes' = r
          /\ result' = IF r = Missing THEN "ResolverError" ELSE "Ok"
    /\ UNCHANGED <<input, source, pc, tokens, scanErrors, pCursor, statements,
                   parseErrors, rScopes, rLocals, resolved, iHeap, executed,
                   out, byteVars, scanVars>>

EnvGetAt == \E name \in EnvNames, depth \in 0..MaxChain : GetAt(name, depth)

\* a call of Environment::update_at on the last environment of the chain
UpdateAt(name, value, depth) ==
    /\ pc = "env"
    /\ \E u \in {update_at(iHeap, Len(iHeap), name, value, depth)} :
          /\ iHeap' = u.heap
          /\ iRes' = IF u.ok THEN value ELSE Missing
          /\ result' = IF u.ok THEN "Ok" ELSE "ResolverError"
    /\ UNCHANGED <<input, source, pc, tokens, scanErrors, pCursor, statements,
                   parseErrors, rScopes, rLocals, resolved, executed, out,
                   byteVars, scanVars>>

EnvUpdateAt ==
    \E name \in EnvNames, depth \in 0..MaxChain :
        UpdateAt(name, LNumber(3, 1), depth)

\* a call of Environment::update on the last environment of the chain
Update(name, value) ==
    /\ pc = "env"
    /\ \E u \in {update(iHeap, Len(iHeap), name, value)} :
          /\ iHeap' = u.heap
          /\ iRes' = IF u.ok THEN value ELSE Missing
          /\ result' = IF u.ok THEN "Some" ELSE "None"
    /\ UNCHANGED <<input, source, pc, tokens, scanErrors, pCursor, statements,
                   parseErrors, rScopes, rLocals, resolved, executed, out,
                   byteVars, scanVars>>

EnvUpdate == \E name \in EnvNames : Update(name, LNumber(4, 1))

\* one call of Scanner::scan_token on a Scanner::new(source), as
\* Parser::advance makes it: calls go on until EoF is returned or the
\* scanner panics
ScanToken ==
    /\ pc # "scan"
    /\ ~scanner.panic
    /\ IF btokens = <<>> THEN TRUE
       ELSE btokens[Len(btokens)].token.ttype # "EoF"
    /\ \E r \in {scan_token(source, scanner.sc)} :
          /\ scanner' = [sc |-> r.sc, panic |-> r.panic]
          /\ btokens' = IF r.panic THEN btokens
                        ELSE Append(btokens, [token |-> r.tok,
                                              start |-> r.sc.start,
                                              current |-> r.sc.current])
    /\ UNCHANGED <<input, source, treeVars, byteVars>>

-----------------------------------------------------------------------------
(* Specifications                                                          *)

InitRun(i) ==
    /\ input = i
    /\ source = SourceOf(i)
    /\ pc = "scan"
    /\ tokens = <<>>
    /\ scanErrors = <<>>
    /\ pCursor = 0
    /\ statements = <<>>
    /\ parseErrors = <<>>
    /\ rScopes = <<>>
    /\ rLocals = <<>>
    /\ resolved = 0
    /\ iHeap = <<>>
    /\ executed = 0
    /\ iRes = NoLit
    /\ out = <<>>
    /\ result = ""
    /\ bpc = "start"
    /\ parser = <<>>
    /\ vmIp = 0
    /\ vmStack = <<>>
    /\ vmGlobals = i.globals
    /\ vout = <<>>
    /\ trace = <<>>
    /\ bresult = ""
    /\ scanner = [sc |-> ScannerNew, panic |-> FALSE]
    /\ btokens = <<>>

Init == \E i \in Programs : InitRun(i)

Next ==
    \/ RunScan
    \/ ParseStatement
    \/ ParseEnd
    \/ ResolveStatement
    \/ ResolveEnd
    \/ InterpretStatement
    \/ InterpretEnd
    \/ CompileBegin
    \/ CompileDeclaration
    \/ CompileEnd
    \/ VMStep

Spec == Init /\ [][Next]_vars

\* the dispatch loop is a sequential loop: it goes on while it can
FairSpec == Spec /\ WF_vars(VMStep)

InitScan ==
    \E src \in ScanSources :
        InitRun([family |-> "text", parts |-> src, block |-> FALSE,
                 globals |-> <<>>])

SpecScan == InitScan /\ [][RunScan]_vars

InitTokens ==
    \E src \in TokenSources :
        InitRun([family |-> "text", parts |-> src, block |-> FALSE,
                 globals |-> <<>>])

NextTokens ==
    \/ RunScan
    \/ ScanToken

\* both scanners on one text, the tree-path scanner first
SpecTokens == InitTokens /\ [][NextTokens]_vars

\* VM::new().run(chunk): the state at the first turn of the dispatch loop
InitVM ==
    \E c \in TestChunks \cup GlobalChunks :
        /\ input = [family |-> "chunk", parts |-> <<>>, block |-> FALSE,
                    globals |-> <<>>]
        /\ source = <<>>
        /\ pc = "scan"
        /\ tokens = <<>>
        /\ scanErrors = <<>>
        /\ pCursor = 0
        /\ statements = <<>>
        /\ parseErrors = <<>>
        /\ rScopes = <<>>
        /\ rLocals = <<>>
        /\ resolved = 0
        /\ iHeap = <<>>
        /\ executed = 0
        /\ iRes = NoLit
        /\ out = <<>>
        /\ result = ""
        /\ bpc = "run"
        /\ parser = [chunk |-> c, had_error |-> FALSE, panic |-> FALSE]
        /\ vmIp = 0
        /\ vmStack = <<>>
        /\ vmGlobals = <<>>
        /\ vout = <<>>
        /\ trace = <<>>
        /\ bresult = ""
        /\ scanner = [sc |-> ScannerNew, panic |-> FALSE]
        /\ btokens = <<>>

SpecVM == InitVM /\ [][VMStep]_vars

\* VM::new().interpret(source)
InitCompile ==
    \E src \in CompileSources :
        /\ input = [family |-> "text", parts |-> src, block |-> FALSE,
                    globals |-> <<>>]
        /\ source = src
        /\ pc = "done"
        /\ tokens = <<>>
        /\ scanErrors = <<>>
        /\ pCursor = 0
        /\ statements = <<>>
        /\ parseErrors = <<>>
        /\ rScopes = <<>>
        /\ rLocals = <<>>
        /\ resolved = 0
        /\ iHeap = <<>>
        /\ executed = 0
        /\ iRes = NoLit
        /\ out = <<>>
        /\ result = ""
        /\ bpc = "start"
        /\ parser = <<>>
        /\ vmIp = 0
        /\ vmStack = <<>>
        /\ vmGlobals = <<>>
        /\ vout = <<>>
        /\ trace = <<>>
        /\ bresult = ""
        /\ scanner = [sc |-> ScannerNew, panic |-> FALSE]
        /\ btokens = <<>>

\* a chunk with n constants written before, about to get one more
InitPool ==
    \E n \in PoolSizes, value \in PoolValues :
        /\ input = [family |-> "pool", parts |-> <<value>>, block |-> FALSE,
                    globals |-> <<>>]
        /\ source = <<>>
        /\ pc = "scan"
        /\ tokens = <<>>
        /\ scanErrors = <<>>
        /\ pCursor = 0
        /\ statements = <<>>
        /\ parseErrors = <<>>
        /\ rScopes = <<>>
        /\ rLocals = <<>>
        /\ resolved = 0
        /\ iHeap = <<>>
        /\ executed = 0
        /\ iRes = NoLit
        /\ out = <<>>
        /\ result = ""
        /\ bpc = "write"
        /\ parser = [chunk |-> PoolOf(n), had_error |-> FALSE,
                     panic |-> FALSE]
        /\ vmIp = 0
        /\ vmStack = <<>>
        /\ vmGlobals = <<>>
        /\ vout = <<>>
        /\ trace = <<>>
        /\ bresult = ""
        /\ scanner = [sc |-> ScannerNew, panic |-> FALSE]
        /\ btokens = <<>>

NextPool ==
    \/ WriteConstant
    \/ VMStep

SpecPool == InitPool /\ [][NextPool]_vars

\* environments built with Environment::new and new_with_parent
InitEnv ==
    \E chain \in EnvChains :
        /\ input = [family |-> "env", parts |-> <<>>, block |-> FALSE,
                    globals |-> <<>>]
        /\ source = <<>>
        /\ pc = "env"
        /\ tokens = <<>>
        /\ scanErrors = <<>>
        /\ pCursor = 0
        /\ statements = <<>>
        /\ parseErrors = <<>>
        /\ rScopes = <<>>
        /\ rLocals = <<>>
        /\ resolved = 0
        /\ iHeap = chain
        /\ executed = 0
        /\ iRes = NoLit
        /\ out = <<>>
        /\ result = ""
        /\ bpc = "start"
        /\ parser = <<>>
        /\ vmIp = 0
        /\ vmStack = <<>>
        /\ vmGlobals = <<>>
        /\ vout = <<>>
        /\ trace = <<>>
        /\ bresult = ""
        /\ scanner = [sc |-> ScannerNew, panic |-> FALSE]
        /\ btokens = <<>>

NextEnv ==
    \/ EnvGetAt
    \/ EnvUpdateAt
    \/ EnvUpdate

SpecEnv == InitEnv /\ [][NextEnv]_vars

NextCompile ==
    \/ CompileBegin
    \/ CompileDeclaration
    \/ CompileEnd
    \/ VMStep

SpecCompile == InitCompile /\ [][NextCompile]_vars

\* Interpreter::new().interpret(stmts)
InitEval ==
    \E stmts \in EvalPrograms :
        /\ input = [family |-> "tree", parts |-> <<>>, block |-> FALSE,
                    globals |-> <<>>]
        /\ source = <<>>
        /\ pc = "interpret"
        /\ tokens = <<>>
        /\ scanErrors = <<>>
        /\ pCursor = 0
        /\ statements = stmts
        /\ parseErrors = <<>>
        /\ rScopes = <<>>
        /\ rLocals = <<>>
        /\ resolved = Len(stmts)
        /\ iHeap = <<[parent |-> 0, values |-> <<>>]>>
        /\ executed = 0
        /\ iRes = NoLit
        /\ out = <<>>
        /\ result = ""
        /\ bpc = "start"
        /\ parser = <<>>
        /\ vmIp = 0
        /\ vmStack = <<>>
        /\ vmGlobals = <<>>
        /\ vout = <<>>
        /\ trace = <<>>
        /\ bresult = ""
        /\ scanner = [sc |-> ScannerNew, panic |-> FALSE]
        /\ btokens = <<>>

NextEval ==
    \/ InterpretStatement
    \/ InterpretEnd

SpecEval == InitEval /\ [][NextEval]_vars

\* Resolver::new().resolve(stmts), then
\* Interpreter::new_with_locals(locals).interpret(stmts)
InitResolve ==
    \E stmts \in ResolvePrograms :
        /\ input = [family |-> "tree", parts |-> <<>>, block |-> FALSE,
                    globals |-> <<>>]
        /\ source = <<>>
        /\ pc = "resolve"
        /\ tokens = <<>>
        /\ scanErrors = <<>>
        /\ pCursor = 0
        /\ statements = stmts
        /\ parseErrors = <<>>
        /\ rScopes = builtin_clock(<<<<>>>>)
        /\ rLocals = <<>>
        /\ resolved = 0
        /\ iHeap = <<>>
        /\ executed = 0
        /\ iRes = NoLit
        /\ out = <<>>
        /\ result = ""
        /\ bpc = "start"
        /\ parser = <<>>
        /\ vmIp = 0
        /\ vmStack = <<>>
        /\ vmGlobals = <<>>
        /\ vout = <<>>
        /\ trace = <<>>
        /\ bresult = ""
        /\ scanner = [sc |-> ScannerNew, panic |-> FALSE]
        /\ btokens = <<>>

NextResolve ==
    \/ ResolveStatement
    \/ ResolveEnd
    \/ InterpretStatement
    \/ InterpretEnd

SpecResolve == InitResolve /\ [][NextResolve]_vars

\* Lox::run up to the end of Parser::parse
InitParse ==
    \E src \in ParseSources :
        InitRun([family |-> "text", parts |-> src, block |-> FALSE,
                 globals |-> <<>>])

NextParse ==
    \/ RunScan
    \/ ParseStatement
    \/ ParseEnd

SpecParse == InitParse /\ [][NextParse]_vars

\* Lox::run up to the end of Parser::parse on texts of short statements.
\* Parser::parse is a sequential loop: its turns, and its return, are taken
\* while they can be
InitLoop ==
    \E src \in LoopSources :
        InitRun([family |-> "text", parts |-> src, block |-> FALSE,
                 globals |-> <<>>])

FairSpecParse ==
    InitLoop /\ [][NextParse]_vars /\ WF_vars(ParseStatement \/ ParseEnd)

\* Lox::run and VM::interpret on texts with syntax errors
InitSync ==
    \E src \in SyncSources :
        InitRun([family |-> "text", parts |-> src, block |-> FALSE,
                 globals |-> <<>>])

SpecSync == InitSync /\ [][Next]_vars

-----------------------------------------------------------------------------
(* Claims about whole runs                                                 *)

\* the texts of the lines of a stdout
Texts(ls) == [i \in 1..Len(ls) |-> ls[i].text]

\* Compiler::compile has returned true
CompiledClean ==
    bpc \in {"run", "done"} /\ ~parser.panic /\ ~parser.had_error

\* Compiler::compile has met an error, reported or suppressed
CompileFailed == bpc \in {"compile", "done"} /\ parser.had_error

\* C1: a program of print, var and expression statements over literals,
\* globals and operators, run from a file (no globals beforehand), which
\* both paths run without error, gets the same stdout lines from both.
C1_SameStdout ==
    (/\ input.family = "basic"
     /\ input.globals = <<>>
     /\ pc = "done" /\ result = "Ok"
     /\ bpc = "done" /\ bresult = "Ok")
    => Texts(out) = Texts(vout)

\* C2: once the compiler has met an error, VM::interpret returns
\* Err(Compiler), no opcode has been executed and the globals are those
\* from before the call.
C2_FailedCompileRefused ==
    (CompileFailed /\ bpc = "done")
    => /\ bresult = "Compiler"
       /\ trace = <<>>
       /\ vmGlobals = input.globals

\* C3: during the run of a chunk compiled without error, ip is the offset
\* of an opcode written by the compiler, inside the code; the operand bytes
\* of that opcode are inside the code; the constant-pool index they give is
\* inside the pool; and the opcode is not Unknown.
C3_IpOnOpcode ==
    bpc = "run" =>
        LET code == parser.chunk.code
            pool == parser.chunk.constants
            emitted == parser.chunk.emitted
            op == OpFrom(code[vmIp + 1])
        IN  /\ vmIp < Len(code)
            /\ \E i \in 1..Len(emitted) : emitted[i] = vmIp
            /\ op # "Unknown"
            /\ op \in {"Constant", "DefineGlobal", "GetGlobal", "SetGlobal"}
                 => /\ vmIp + 1 < Len(code)
                    /\ code[vmIp + 2] < Len(pool)
            /\ op = "ConstantLong"
                 => /\ vmIp + 2 < Len(code)
                    /\ long_index(code[vmIp + 2], code[vmIp + 3]) < Len(pool)

\* the run stands on an instruction with an operand, after earlier turns
C3_Witness ==
    /\ bpc = "run"
    /\ Len(trace) >= 2
    /\ OpFrom(parser.chunk.code[vmIp + 1]) = "GetGlobal"
    /\ parser.chunk.code[vmIp + 2] = 1

\* the turns taken so far are the first instructions the compiler wrote,
\* in the order it wrote them, each once; a run that has ended without a
\* runtime error has ended on the Return written last
C4_InEmissionOrder ==
    LET code == parser.chunk.code
        emitted == parser.chunk.emitted
    IN  /\ (CompiledClean /\ bpc = "run")
           => /\ Len(trace) < Len(emitted)
              /\ Append(trace, vmIp) = SubSeq(emitted, 1, Len(trace) + 1)
        /\ (CompiledClean /\ bpc = "done" /\ bresult # "Runtime")
           => /\ bresult = "Ok"
              /\ trace = emitted
              /\ trace[Len(trace)] = Len(code) - 1
              /\ code[Len(code)] = OpByte("Return")

\* C4: the run of a chunk compiled without error ends; unless a runtime
\* error ends it, it ends by executing the Return that compile wrote as the
\* last byte, after every earlier instruction once, in emission order.
C4_TerminatesByReturn ==
    /\ [](C4_InEmissionOrder)
    /\ (CompiledClean ~> (bpc = "done"))

\* a run of several instructions has ended on Return
C4_Witness ==
    /\ CompiledClean
    /\ bpc = "done" /\ bresult = "Ok"
    /\ Len(trace) >= 6
    /\ trace[Len(trace)] = Len(parser.chunk.code) - 1

\* C5: every line of the VM's stdout was written by a Print, and there is
\* one line for each Print executed.
C5_OnlyPrintWrites ==
    /\ \A i \in 1..Len(vout) : vout[i].by = "Print"
    /\ bpc \in {"run", "done"}
         => Len(vout) =
              Cardinality({i \in 1..Len(trace) :
                  OpFrom(parser.chunk.code[trace[i] + 1]) = "Print"})

\* what f, g and the enclosing scope print when x is one variable:
\* f adds 1 to x, g doubles x, both return x
RECURSIVE SharedLines(_, _)
SharedLines(parts, x) ==
    IF parts = <<>> THEN <<>>
    ELSE LET x1 == CASE Head(parts) = SrcCallF -> x + 1
                     [] Head(parts) = SrcCallG -> x + x
                     [] OTHER -> x
         IN  <<NatChars(x1)>> \o SharedLines(Tail(parts), x1)

\* C6: f and g, declared in one scope, assign the x of that scope; every
\* read of x, by f, by g or by the scope itself, gives the value assigned
\* last, whichever function assigned it.
C6_SharedBinding ==
    input.family = "shared" =>
        /\ result \in {"", "Ok"}
        /\ pc = "done" => Texts(out) = SharedLines(input.parts, 1)
        /\ (pc = "interpret" /\ executed >= 3 /\ ~input.block)
             => Texts(out) = SharedLines(SubSeq(input.parts, 1, executed - 3), 1)

\* f has assigned x, then g has read and assigned it, then the scope reads it
C6_Witness ==
    /\ input.family = "shared" /\ input.block
    /\ input.parts = <<SrcCallF, SrcCallG, SrcReadX>>
    /\ pc = "done"
    /\ Texts(out) = <<<<"2">>, <<"4">>, <<"4">>>>

\* C7: c = make(1) and d = make(5); the k-th call of c prints 1 + k and the
\* k-th call of d prints 5 + k, however the calls of the two are mixed.
C7_PrivateCounters ==
    input.family = "make" =>
        /\ result \in {"", "Ok"}
        /\ pc = "done" => Len(out) = Len(input.parts)
        /\ (pc = "interpret" /\ executed >= 3) => Len(out) = executed - 3
        /\ \A i \in 1..Len(out) :
              LET n == IF input.parts[i] = SrcCallC THEN 1 ELSE 5
                  k == Cardinality({j \in 1..i :
                                      input.parts[j] = input.parts[i]})
              IN  out[i] = Line("Print", NatChars(n + k))

\* c has been called twice with a call of d in between
C7_Witness ==
    /\ input.family = "make"
    /\ input.parts = <<SrcCallC, SrcCallD, SrcCallC>>
    /\ pc = "done"
    /\ Texts(out) = <<<<"2">>, <<"6">>, <<"3">>>>

\* the resolver has reported an error
ResolverReported == \E i \in 1..Len(out) : out[i].by = "Resolver"

\* C8: once the resolver has reported an error the program is not
\* interpreted: no statement is executed and nothing is printed.
C8_ResolverErrorStopsRun ==
    ResolverReported =>
        /\ pc # "interpret"
        /\ executed = 0
        /\ \A i \in 1..Len(out) : out[i].by = "Resolver"


-----------------------------------------------------------------------------
(* Claims about the tree-path scanner                                      *)

Accepted == pc \notin {"scan", "scan_error"}

\* C9: an accepted source yields a token list with exactly one EoF token,
\* in last place; every lexeme is the slice source[lo..hi], the slices are
\* pairwise disjoint and in source order, and their lengths sum to at most
\* the length of the source.
RECURSIVE SumLexemes(_)
SumLexemes(ts) ==
    IF ts = <<>> THEN 0 ELSE Len(Head(ts).lexeme) + SumLexemes(Tail(ts))

C9_OneEofDisjointLexemes ==
    Accepted =>
        /\ Len(tokens) >= 1
        /\ \A i \in 1..Len(tokens) :
              (tokens[i].ttype = "EoF") <=> (i = Len(tokens))
        /\ \A i \in 1..Len(tokens) :
              /\ 0 <= tokens[i].lo /\ tokens[i].lo <= tokens[i].hi
              /\ tokens[i].hi <= Len(source)
              /\ tokens[i].lexeme = Slice(source, tokens[i].lo, tokens[i].hi)
              /\ (i < Len(tokens)) => (tokens[i].lo < tokens[i].hi)
        /\ \A i, j \in 1..Len(tokens) :
              (i < j) => (tokens[i].hi <= tokens[j].lo)
        /\ SumLexemes(tokens) <= Len(source)

C9_Witness ==
    /\ Accepted
    /\ Len(tokens) = 3
    /\ tokens[1].ttype = "String"
    /\ tokens[1].lexeme = <<"\"", "\n", "\"">>
    /\ tokens[2].ttype = "Number"
    /\ tokens[2].lo = 3

\* C10: in an accepted source every token, the EoF token included (it sits
\* at the end of input), is located at line 1 + the number of newlines
\* before its first character and at the column counting the characters
\* between the start of that line and its first character.
LineOf(src, off) == 1 + Cardinality({i \in 1..off : src[i] = "\n"})

ColOf(src, off) ==
    LET nls == {i \in 1..off : src[i] = "\n"}
    IN  IF nls = {} THEN off
        ELSE off - (CHOOSE m \in nls : \A i \in nls : i <= m)

C10_TokenLocations ==
    Accepted =>
        \A i \in 1..Len(tokens) :
            tokens[i].location =
                Loc(LineOf(source, tokens[i].lo), ColOf(source, tokens[i].lo))

C10_Witness ==
    /\ Accepted
    /\ \E i \in 1..Len(tokens) :
          /\ tokens[i].ttype = "Identifier"
          /\ tokens[i].location = Loc(2, 2)
          /\ Slice(source, 0, 3) = <<"/", "*", "\n">>
    /\ tokens[Len(tokens)].location.line = 2

\* what a token list says apart from positions: the types and the lexemes
Shapes(ts) == [i \in 1..Len(ts) |-> <<ts[i].ttype, ts[i].lexeme>>]

Kinds(errs) == [i \in 1..Len(errs) |-> errs[i].kind]

\* the text after an opening `/*`, read left to right from offset i at the
\* given depth: the offset right after the `*/` that brings the depth to
\* zero, or -1 when the input ends first
RECURSIVE CommentEnd(_, _, _)
CommentEnd(src, i, depth) ==
    IF i >= Len(src) THEN -1
    ELSE IF Ch(src, i) = "/" /\ Ch(src, i + 1) = "*"
    THEN CommentEnd(src, i + 2, depth + 1)
    ELSE IF Ch(src, i) = "*" /\ Ch(src, i + 1) = "/"
    THEN IF depth = 1 THEN i + 2 ELSE CommentEnd(src, i + 2, depth - 1)
    ELSE CommentEnd(src, i + 1, depth)

OpensComment(src) == Len(src) >= 2 /\ src[1] = "/" /\ src[2] = "*"

\* C11: a source that opens with `/*` is scanned as the text right after
\* the `*/` that brings the nesting depth (1 after the opening, +1 on each
\* `/*`, -1 on each `*/`) to zero: nothing of the comment becomes a token
\* or an error; when the input ends before that, the scan fails with
\* UnterminatedComment.
C11_NestableBlockComment ==
    (pc # "scan" /\ OpensComment(source)) =>
        LET resumed(rest) ==
                /\ (pc = "scan_error") <=> ~rest.ok
                /\ rest.ok => Shapes(tokens) = Shapes(rest.tokens)
                /\ Kinds(scanErrors) = Kinds(rest.errors)
            ended(e) ==
                IF e = -1
                THEN /\ pc = "scan_error"
                     /\ scanErrors # <<>>
                     /\ scanErrors[1] =
                            ScanError("UnterminatedComment", Loc(1, 0))
                ELSE resumed(Scan(Slice(source, e, Len(source))))
        IN  ended(CommentEnd(source, 2, 1))

-----------------------------------------------------------------------------
(* Claims about both scanners                                              *)

RECURSIVE DigitsEnd(_, _)
DigitsEnd(src, i) == IF Ch(src, i) \in Digit THEN DigitsEnd(src, i + 1) ELSE i

\* where the number that starts at offset i ends: the digits, and a `.`
\* with the digits after it when a digit follows the `.`
NumberEnd(src, i) ==
    LET fraction(d) ==
            IF Ch(src, d) = "." /\ Ch(src, d + 1) \in Digit
            THEN DigitsEnd(src, d + 1) ELSE d
    IN  fraction(DigitsEnd(src, i))

StartsWithDigit(src) == src # <<>> /\ src[1] \in Digit

\* C12: a source that starts with a digit yields, in both scanners, a
\* first token Number made of the digits and of `.` with more digits only
\* if a digit follows the `.`; a `.` left over is the next token, Dot.
C12_NumberToken ==
    StartsWithDigit(source) =>
        LET number(e) ==
                /\ Accepted =>
                      /\ tokens[1].ttype = "Number"
                      /\ tokens[1].lo = 0 /\ tokens[1].hi = e
                      /\ Ch(source, e) = "." =>
                            /\ tokens[2].ttype = "Dot"
                            /\ tokens[2].lo = e
                /\ ~(scanner.panic /\ btokens = <<>>)
                /\ Len(btokens) >= 1 =>
                      /\ btokens[1].token =
                            Token("Number", Slice(source, 0, e), 1)
                      /\ btokens[1].current = e
                /\ (Len(btokens) >= 2 /\ Ch(source, e) = ".") =>
                      /\ btokens[2].token.ttype = "Dot"
                      /\ btokens[2].start = e
        IN  number(NumberEnd(source, 0))

\* the offset of the first `"` at or after offset i, or -1 when there is none
RECURSIVE QuoteAt(_, _)
QuoteAt(src, i) ==
    IF i >= Len(src) THEN -1
    ELSE IF Ch(src, i) = "\"" THEN i ELSE QuoteAt(src, i + 1)

StartsWithQuote(src) == src # <<>> /\ src[1] = "\""

\* C13: a source that starts with `"` yields, in both scanners, a first
\* token String that runs to the first `"` after it, newlines included,
\* and the token after it is on line 1 + the number of newlines before
\* it; when no closing `"` exists the tree-path scan fails with
\* UnterminatedString and the bytecode scanner returns an Error token.
C13_StringToken ==
    StartsWithQuote(source) =>
        LET string(q) ==
                IF q = -1
                THEN /\ pc # "scan" =>
                           /\ pc = "scan_error"
                           /\ scanErrors[1] =
                                  ScanError("UnterminatedString", Loc(1, 0))
                     /\ ~(scanner.panic /\ btokens = <<>>)
                     /\ Len(btokens) >= 1 =>
                           btokens[1].token =
                               Token("Error", <<"Unterminated string">>, 1)
                ELSE /\ Accepted =>
                           /\ tokens[1].ttype = "String"
                           /\ tokens[1].lo = 0 /\ tokens[1].hi = q + 1
                           /\ tokens[1].literal =
                                  LString(Slice(source, 1, q))
                           /\ tokens[2].location.line =
                                  LineOf(source, tokens[2].lo)
                     /\ ~(scanner.panic /\ btokens = <<>>)
                     /\ Len(btokens) >= 1 =>
                           /\ btokens[1].token.ttype = "String"
                           /\ btokens[1].token.lexeme =
                                  Slice(source, 0, q + 1)
                           /\ btokens[1].current = q + 1
                     /\ Len(btokens) >= 2 =>
                           btokens[2].token.line =
                               LineOf(source, btokens[2].start)
        IN  string(QuoteAt(source, 1))

\* the offset of the first newline at or after offset i, or the end of input
RECURSIVE LineEnd(_, _)
LineEnd(src, i) ==
    IF i >= Len(src) \/ Ch(src, i) = "\n" THEN i ELSE LineEnd(src, i + 1)

OpensLineComment(src) == Len(src) >= 2 /\ src[1] = "/" /\ src[2] = "/"

\* C14: a source that opens with `//` is scanned, by both scanners, as
\* the text from the first newline on (or as the empty text when there is
\* no newline): nothing from the first `/` up to there becomes a token or
\* an error, whatever the comment holds, the empty comment included.
C14_LineComment ==
    OpensLineComment(source) =>
        LET tree(rest) ==
                pc # "scan" =>
                    /\ (pc = "scan_error") <=> ~rest.ok
                    /\ rest.ok => Shapes(tokens) = Shapes(rest.tokens)
                    /\ Kinds(scanErrors) = Kinds(rest.errors)
            bytecode(e, r) ==
                /\ (scanner.panic /\ btokens = <<>>) => r.panic
                /\ Len(btokens) >= 1 =>
                      /\ ~r.panic
                      /\ btokens[1].token = r.tok
                      /\ btokens[1].start = r.sc.start + e
                      /\ btokens[1].current = r.sc.current + e
            comment(e) ==
                /\ tree(Scan(Slice(source, e, Len(source))))
                /\ bytecode(e, scan_token(Slice(source, e, Len(source)),
                                          ScannerNew))
        IN  comment(LineEnd(source, 2))

-----------------------------------------------------------------------------
(* Claims about the bytecode scanner                                       *)

OneChar(c) ==
    CASE c = "!" -> "Bang" [] c = "=" -> "Equal"
      [] c = "<" -> "Less" [] c = ">" -> "Greater"

TwoChar(c) ==
    CASE c = "!" -> "BangEqual" [] c = "=" -> "EqualEqual"
      [] c = "<" -> "LessEqual" [] c = ">" -> "GreaterEqual"

\* C15: every token the bytecode scanner returns for a lexeme that starts
\* with `!`, `=`, `<` or `>` is the two-character token, two characters
\* long, exactly when the character after it is `=`, and else the
\* one-character token, one character long.
C15_TwoCharOperators ==
    \A i \in 1..Len(btokens) :
        LET t == btokens[i]
            c == Ch(source, t.start)
        IN  c \in {"!", "=", "<", ">"} =>
                IF Ch(source, t.start + 1) = "="
                THEN t.token.ttype = TwoChar(c) /\ t.current = t.start + 2
                ELSE t.token.ttype = OneChar(c) /\ t.current = t.start + 1

\* the keyword type of each reserved word
KeywordTypes ==
    {<<<<"a", "n", "d">>, "And">>, <<<<"c", "l", "a", "s", "s">>, "Class">>,
     <<<<"e", "l", "s", "e">>, "Else">>,
     <<<<"f", "a", "l", "s", "e">>, "False">>, <<<<"f", "o", "r">>, "For">>,
     <<<<"f", "u", "n">>, "Fun">>, <<<<"i", "f">>, "If">>,
     <<<<"n", "i", "l">>, "Nil">>, <<<<"o", "r">>, "Or">>,
     <<<<"p", "r", "i", "n", "t">>, "Print">>,
     <<<<"r", "e", "t", "u", "r", "n">>, "Return">>,
     <<<<"s", "u", "p", "e", "r">>, "Super">>,
     <<<<"t", "h", "i", "s">>, "This">>, <<<<"t", "r", "u", "e">>, "True">>,
     <<<<"v", "a", "r">>, "Var">>,
     <<<<"w", "h", "i", "l", "e">>, "While">>}

\* C16: every token the bytecode scanner returns for a lexeme that starts
\* with a letter or `_` has the keyword type of its lexeme when the whole
\* lexeme is one of the 16 reserved words, and the type Identifier
\* otherwise.
C16_KeywordTypes ==
    \A i \in 1..Len(btokens) :
        LET t == btokens[i].token
        IN  Ch(source, btokens[i].start) \in Alpha \cup {"_"} =>
                IF t.lexeme \in ReservedWords
                THEN <<t.lexeme, t.ttype>> \in KeywordTypes
                ELSE t.ttype = "Identifier"

-----------------------------------------------------------------------------
(* Claims about the opcodes of the VM                                      *)

\* the opcode the next turn of the dispatch loop reads
OpAtIp ==
    IF bpc = "run" /\ vmIp < Len(parser.chunk.code)
    THEN OpFrom(parser.chunk.code[vmIp + 1]) ELSE "None"

Falsy(v) == v = VNil \/ v = VBool(FALSE)

\* C17: a turn of the dispatch loop at a Not opcode replaces the top value
\* v by Bool(TRUE) when v is Nil or Bool(FALSE) and by Bool(FALSE) for
\* every other v; on the Bool that Equal pushed it leaves the negation.
C17_NotPushesFalsiness ==
    [][(OpAtIp = "Not" /\ vmStack # <<>>) =>
          /\ vmStack' =
                Append(Popped(vmStack), VBool(Falsy(Peek(vmStack, 0))))
          /\ Peek(vmStack, 0).t = "Bool" =>
                Peek(vmStack', 0) = VBool(~Peek(vmStack, 0).v)]_vars

\* C18: a turn of the dispatch loop at an Equal opcode whose two operands
\* are strings with the same characters, one a String and the other a
\* ConstString in either order, pushes Bool(TRUE).
C18_StringKindsCompareEqual ==
    [][(/\ OpAtIp = "Equal"
        /\ Len(vmStack) >= 2
        /\ {Peek(vmStack, 0).t, Peek(vmStack, 1).t} = {"String", "ConstString"}
        /\ Peek(vmStack, 0).v = Peek(vmStack, 1).v) =>
          vmStack' = Append(Popped(Popped(vmStack)), VBool(TRUE))]_vars

-----------------------------------------------------------------------------
(* Claims about the tree evaluator                                         *)

\* the statement the next turn of Interpreter::interpret executes
Executing(k) ==
    /\ pc = "interpret"
    /\ executed < Len(statements)
    /\ statements[executed + 1].k = k

\* what a turn of Interpreter::interpret starts from
TurnStart ==
    [heap |-> iHeap, out |-> <<>>, fstack |-> <<"None">>, fuel |-> MaxFuel]

\* the turn of a statement that evaluates one expression ends as the
\* evaluation x of that expression does; a print statement also writes
\* the value
TurnEndsAs(x, printing) ==
    /\ iHeap' = x.S.heap
    /\ out' = out \o Lines("Print",
                   IF printing /\ x.st = "Ok"
                   THEN Append(x.S.out, LiteralDisplay(x.v)) ELSE x.S.out)
    /\ IF x.st = "Ok" THEN pc' = "interpret"
       ELSE pc' = "done" /\ result' = "Runtime"

Truthy(v) == v # LNil /\ v # LBool(FALSE)

CallInOrder(e, S) ==
    LET returned(res) ==
            IF res.st # "Ok" THEN res
            ELSE IOk(IF res.v.t = "None" THEN LNil ELSE res.v, FALSE, res.S)
        body(c, a, created) ==
            returned(Execute(c.v.v.body, Len(created), rLocals,
                       [a.S EXCEPT
                          !.heap = DefineParams(created, Len(created),
                                                c.v.v.params, a.v),
                          !.fstack = Append(@, "Function"),
                          !.fuel = @ - 1]))
        arguments(c, a) ==
            IF a.st # "Ok" THEN a
            ELSE IF Len(e.arguments) # Len(c.v.v.params)
            THEN RuntimeError("Expected arguments", e.location, a.S)
            ELSE body(c, a, new_with_parent(a.S.heap, c.v.v.closure))
        callee(c) ==
            IF c.st # "Ok" THEN c
            ELSE IF c.v.t # "Function"
            THEN RuntimeError("Can only call functions and classes.",
                              e.location, c.S)
            ELSE arguments(c, EvaluateAll(e.arguments, <<>>, 1, rLocals, c.S))
    IN  callee(Evaluate(e.callee, 1, rLocals, S))

\* C20: executing the statement `callee(arguments);` ends as the call
\* carried out in this order does: the callee is evaluated; a callee that
\* is not a Function fails the call; the arguments are evaluated left to
\* right; only then a number of arguments other than the number of
\* parameters fails the call; only then the body runs.
C20_CallOrder ==
    [][(Executing("Expression")
        /\ statements[executed + 1].expr.k = "Call") =>
          TurnEndsAs(CallInOrder(statements[executed + 1].expr, TurnStart),
                     FALSE)]_vars

\* what the call of a function with this body prints, and what it yields:
\* the blocks run in order up to the first one that returns
RECURSIVE Unwind(_)
Unwind(body) ==
    IF body = <<>> THEN [prints |-> <<>>, returns |-> LNil]
    ELSE IF Head(body).returns # NoLit
    THEN [prints |-> Head(body).prints, returns |-> Head(body).returns]
    ELSE [Unwind(Tail(body)) EXCEPT !.prints = Head(body).prints \o @]

\* the lines of `print f(); print "e";`
ReturnLines(body, turn) ==
    Lines("Print",
          IF turn < 3 THEN <<>>
          ELSE Unwind(body).prints
               \o <<LiteralDisplay(Unwind(body).returns)>>
               \o (IF turn < 4 THEN <<>> ELSE <<<<"e">>>>))

\* C21: once a Return executes in a function body, at any depth of blocks,
\* if statements and while loops, no further statement of the body runs,
\* the call yields the returned value (Nil when the body ends without a
\* Return), and the statements after the call run as usual.
C21_ReturnUnwinds ==
    \A body \in ReturnBodies :
        statements = ReturnProgram(body) =>
            /\ result \in {"", "Ok"}
            /\ out = ReturnLines(body, executed)

\* the return out of the second turn of the loop, a live print after it in
\* the body, and the caller's next statement printed
C21_Witness ==
    \E body \in ReturnBodies :
        /\ statements = ReturnProgram(body)
        /\ pc = "done"
        /\ Len(body) = 2
        /\ body[1].s.k = "While"
        /\ body[1].prints # <<>>
        /\ body[2].s.k = "Print"
        /\ out = Lines("Print", <<<<"1">>, <<"2">>, <<"e">>>>)

-----------------------------------------------------------------------------
(* Claims about the resolver.                                              *)

NoDuplicate == [name |-> <<>>, location |-> Loc(0, 0)]

\* the first `var` of the statements ss, all of one scope, that declares a
\* name the scope has declared already; a block and a function body open a
\* scope of their own; nothing is a duplicate in the global scope
RECURSIVE FirstDuplicate(_, _, _)
FirstDuplicate(ss, declared, global) ==
    IF ss = <<>> THEN NoDuplicate
    ELSE LET s == Head(ss)
             inner(d, names) ==
                 IF d # NoDuplicate THEN d
                 ELSE FirstDuplicate(Tail(ss), names, global)
         IN  CASE s.k = "VarDecl" ->
                    IF ~global /\ s.name \in declared
                    THEN [name |-> s.name, location |-> s.location]
                    ELSE FirstDuplicate(Tail(ss), declared \cup {s.name},
                                        global)
               [] s.k = "Block" ->
                    inner(FirstDuplicate(s.stmts, {}, FALSE), declared)
               [] s.k = "FunDecl" ->
                    inner(FirstDuplicate(s.body.stmts, {}, FALSE),
                          declared \cup {s.name})
               [] OTHER -> FirstDuplicate(Tail(ss), declared, global)

Resolving == pc = "resolve" /\ resolved < Len(statements)

\* the lines the resolver prints for a statement whose first duplicate is d
DuplicateLines(d) ==
    IF d = NoDuplicate THEN <<>>
    ELSE <<Line("Resolver",
                ResolverErrorDisplay([kind |-> "DuplicateVariable",
                                      name |-> d.name,
                                      location |-> d.location]))>>

\* C22: resolving a statement reports DuplicateVariable for a `var` that
\* declares a name its own non-global scope has declared already, and
\* reports nothing for a `var` that declares a name of the global scope
\* again.
C22_DuplicateVariable ==
    [][Resolving =>
         out' = out \o DuplicateLines(
                         FirstDuplicate(<<statements[resolved + 1]>>, {},
                                        TRUE))]_vars

-----------------------------------------------------------------------------
(* Claims about the tree-path parser.                                      *)

\* a tree with every location replaced by L0
RECURSIVE Unlocated(_)
Unlocated(n) ==
    CASE n.k \in {"Literal", "Variable"} -> [n EXCEPT !.location = L0]
      [] n.k = "Assignment" ->
           [n EXCEPT !.location = L0, !.value = Unlocated(@)]
      [] n.k = "Unary" -> [n EXCEPT !.location = L0, !.right = Unlocated(@)]
      [] n.k = "Binary" ->
           [n EXCEPT !.location = L0, !.left = Unlocated(@),
                     !.right = Unlocated(@)]
      [] n.k = "Call" ->
           [n EXCEPT !.location = L0, !.callee = Unlocated(@),
                     !.arguments = [i \in 1..Len(@) |-> Unlocated(@[i])]]
      [] n.k \in {"Expression", "Print", "Return"} ->
           [n EXCEPT !.expr = Unlocated(@)]
      [] n.k = "VarDecl" ->
           [n EXCEPT !.location = L0, !.initializer = Unlocated(@)]
      [] n.k = "If" ->
           [n EXCEPT !.condition = Unlocated(@),
                     !.then_branch = Unlocated(@),
                     !.else_branch = Unlocated(@)]
      [] n.k = "While" ->
           [n EXCEPT !.condition = Unlocated(@), !.body = Unlocated(@)]
      [] n.k = "Block" ->
           [n EXCEPT !.stmts = [i \in 1..Len(@) |-> Unlocated(@[i])]]
      [] n.k = "FunDecl" -> [n EXCEPT !.body = Unlocated(@)]
      [] OTHER -> n

\* the tree of `{ initializer while (condition) { body increment; } }`, the
\* condition `true` when there is none, the blocks only around what is there
Desugared(initializer, condition, increment, body) ==
    LET loop == SWhile(IF condition.tree = NoExpr
                       THEN ELiteral(L0, LBool(TRUE))
                       ELSE condition.tree,
                       IF increment.tree = NoStmt THEN body.tree
                       ELSE SBlock(<<body.tree, increment.tree>>))
    IN  IF initializer.tree = NoStmt THEN loop
        ELSE SBlock(<<initializer.tree, loop>>)

Parsed == pc \notin {"scan", "parse"}

\* C23: with a `var` declaration, an expression statement or a lone `;`
\* as initializer, the parser accepts `for (init cond; inc) body` and
\* builds the tree of `{ init; while (cond) { body; inc; } }`, cond being
\* `true` when left out and the blocks only around what is there.
C23_ForDesugars ==
    \A i \in ForInitializers, c \in ForConditions, n \in ForIncrements,
       b \in ForBodies :
        (source = ForSource(i, c, n, b) /\ Parsed) =>
            /\ pc = "resolve"
            /\ Len(statements) = 1
            /\ Unlocated(statements[1]) = Desugared(i, c, n, b)

\* the statement the interpreter executes next, executed from this state
NextTurn == Execute(statements[executed + 1], 1, rLocals, TurnStart)

\* C24: a Variable or Assignment the resolver has given a depth finds, each
\* time it is evaluated, the environment that many parent links up and the
\* name bound in it: no statement of a run ends with the ResolverError of
\* get_at or update_at.
C24_ResolvedDepths ==
    (pc = "interpret" /\ executed < Len(statements)) =>
        ~(NextTurn.st = "Err" /\ NextTurn.v.message = "ResolverError")

-----------------------------------------------------------------------------
(* Claims about the bytecode compiler and the chunks it writes.            *)

\* the number of values the opcode pops or peeks
Needs(op) ==
    CASE op \in {"Add", "Subtract", "Multiply", "Divide", "Greater", "Less",
                 "Equal"} -> 2
      [] op \in {"Negate", "Not", "Print", "Pop", "DefineGlobal",
                 "SetGlobal"} -> 1
      [] OTHER -> 0

\* the opcodes that end the code of a statement: Pop of an expression
\* statement, Print of a print statement, DefineGlobal of a declaration
EndsStatement(op) == op \in {"Pop", "Print", "DefineGlobal"}

\* the VM is about to execute the first instruction of a statement
AtStatementStart ==
    /\ bpc = "run"
    /\ IF trace = <<>> THEN TRUE
       ELSE EndsStatement(OpFrom(parser.chunk.code[trace[Len(trace)] + 1]))

\* C25: while the VM runs a chunk that compiled without error, the stack
\* holds what the next opcode pops or peeks, and it is empty before the
\* first instruction of every statement and when Return executes.
C25_StackDiscipline ==
    bpc = "run" =>
        /\ ~parser.had_error
        /\ vmIp < Len(parser.chunk.code)
        /\ Needs(OpAtIp) <= Len(vmStack)
        /\ AtStatementStart => vmStack = <<>>
        /\ OpAtIp = "Return" => vmStack = <<>>

\* Return is reached after a declaration and an expression statement:
\* DefineGlobal has taken the value of the one, Pop the value of the other
C25_Witness ==
    /\ bpc = "run"
    /\ OpAtIp = "Return"
    /\ vmStack = <<>>
    /\ \E i \in 1..Len(trace) :
          OpFrom(parser.chunk.code[trace[i] + 1]) = "DefineGlobal"
    /\ \E i \in 1..Len(trace) :
          OpFrom(parser.chunk.code[trace[i] + 1]) = "Pop"

\* Compiler::compile is about to call Parser::declaration
DeclarationStarts == bpc = "compile" /\ ~check(parser, "EoF")

\* C26: the first error of a statement is reported and sets panic_mode,
\* later errors are not reported until synchronize runs, and synchronize
\* returns with panic_mode false: every declaration starts with panic_mode
\* false, so that its first error is reported.
C26_PanicModeCleared == DeclarationStarts => ~parser.panic_mode

-----------------------------------------------------------------------------
(* Claims about the environments.                                          *)

\* the environment exactly depth parent links up from env; 0 when the chain
\* is shorter
RECURSIVE FrameAt(_, _, _)
FrameAt(heap, env, depth) ==
    IF env = 0 \/ depth = 0 THEN env
    ELSE FrameAt(heap, heap[env].parent, depth - 1)

\* the frame depth links up from the receiver binds the name
BoundAt(name, depth) ==
    /\ FrameAt(iHeap, Len(iHeap), depth) # 0
    /\ name \in DOMAIN iHeap[FrameAt(iHeap, Len(iHeap), depth)].values

\* C27: get_at(name, d) and update_at(name, v, d) consult only the frame
\* exactly d parent links up from the receiver: they fail when the chain is
\* shorter or that frame does not bind the name, update_at then changing no
\* frame, even when a more distant ancestor binds the name.
C27_ExactDepth ==
    [][\A name \in EnvNames, depth \in 0..MaxChain :
         /\ GetAt(name, depth) =>
              iRes' = IF BoundAt(name, depth)
                      THEN iHeap[FrameAt(iHeap, Len(iHeap),
                                         depth)].values[name]
                      ELSE Missing
         /\ UpdateAt(name, LNumber(3, 1), depth) =>
              IF BoundAt(name, depth)
              THEN /\ result' = "Ok"
                   /\ iHeap' = define(iHeap, FrameAt(iHeap, Len(iHeap), depth),
                                      name, LNumber(3, 1))
              ELSE /\ result' = "ResolverError"
                   /\ iHeap' = iHeap]_vars

\* the opcodes of a chunk, in the order written
Ops(chunk) ==
    [i \in 1..Len(chunk.emitted) |-> OpFrom(chunk.code[chunk.emitted[i] + 1])]

\* the type of the third token of the source, the operator of
\* `print 1 <operator> 2;`
OperatorToken(src) ==
    scan_token(src,
               scan_token(src, scan_token(src, ScannerNew).sc).sc).tok.ttype

IsComparison(src) ==
    /\ Len(src) = 12
    /\ SubSeq(src, 1, 8) = <<"p", "r", "i", "n", "t", " ", "1", " ">>
    /\ SubSeq(src, 10, 12) = <<" ", "2", ";">>

\* the opcodes that are to follow the operands
ComparisonOps(ttype) ==
    CASE ttype = "EqualEqual" -> <<"Equal">>
      [] ttype = "BangEqual" -> <<"Equal", "Not">>
      [] ttype = "Less" -> <<"Less">>
      [] ttype = "LessEqual" -> <<"Greater", "Not">>
      [] ttype = "Greater" -> <<"Greater">>
      [] ttype = "GreaterEqual" -> <<"Less", "Not">>
      [] OTHER -> <<>>

\* C28: after the operands of a comparison the compiler writes Equal for
\* `==`, Equal Not for `!=`, Less for `<`, Greater Not for `<=`, Greater
\* for `>` and Less Not for `>=`.
C28_ComparisonOps ==
    (bpc = "run" /\ IsComparison(source)) =>
        Ops(parser.chunk)
          = <<"Constant", "Constant">>
            \o ComparisonOps(OperatorToken(source))
            \o <<"Print", "Return">>

-----------------------------------------------------------------------------
(* Claims about the ownership of the environments.                         *)

\* the environments an environment owns a reference to: its parent, and
\* the closure of every function value it binds
Owned(heap, e) ==
    (IF heap[e].parent # 0 THEN {heap[e].parent} ELSE {})
    \cup {heap[e].values[n].v.closure :
            n \in {m \in DOMAIN heap[e].values :
                     heap[e].values[m].t = "Function"}}

\* the environments reached from those of es in at most n steps
RECURSIVE OwnedWithin(_, _, _)
OwnedWithin(heap, es, n) ==
    IF n = 0 THEN es
    ELSE OwnedWithin(heap, es \cup UNION {Owned(heap, e) : e \in es}, n - 1)

\* C29: the references between the environments (to the parent, to the
\* closure of a bound function value) form no cycle, so that an
\* environment is freed once nothing retains it.
C29_NoOwnershipCycle ==
    \A e \in 1..Len(iHeap) :
        e \notin OwnedWithin(iHeap, Owned(iHeap, e), Len(iHeap))

GlobalOps == {"DefineGlobal", "GetGlobal", "SetGlobal"}

\* C30: in the chunk of an accepted program the operand of every
\* DefineGlobal, GetGlobal and SetGlobal is the index in the constant pool
\* of the ConstString that holds the name of the variable (a, the one
\* variable of the sources here), also when the pool holds 256 constants or
\* more.
C30_GlobalOperands ==
    bpc = "run" =>
        \A i \in 1..Len(parser.chunk.emitted) :
            Ops(parser.chunk)[i] \in GlobalOps =>
                LET k == parser.chunk.code[parser.chunk.emitted[i] + 2]
                IN  /\ k < Len(parser.chunk.constants)
                    /\ read_constant(parser.chunk, k) = VConstString(<<"a">>)

\* C31: between the turns of the loop of Resolver::resolve, whether the
\* statements before resolved cleanly or reported an error, the scope stack
\* holds exactly the one global scope.
C31_ScopesBalanced == pc = "resolve" => Len(rScopes) = 1

-----------------------------------------------------------------------------
(* Claims about the two parsers on one text.                               *)

\* the types of the tokens scan_token returns from sc on, up to EoF
RECURSIVE BTypes(_, _)
BTypes(src, sc) ==
    LET scanned(t) ==
            IF t.panic THEN <<"panic">>
            ELSE IF t.tok.ttype = "EoF" THEN <<"EoF">>
            ELSE <<t.tok.ttype>> \o BTypes(src, t.sc)
    IN  scanned(scan_token(src, sc))

\* the two scanners give the same token stream
SameStream ==
    /\ pc = "done"
    /\ tokens # <<>>
    /\ [i \in 1..Len(tokens) |-> tokens[i].ttype] = BTypes(source, ScannerNew)

\* the cursor of the token of the tree path that starts at offset lo, the
\* EoF token for the end of the text
CursorAt(lo) ==
    IF \E c \in 0..(Len(tokens) - 1) : tokens[c + 1].lo = lo
    THEN CHOOSE c \in 0..(Len(tokens) - 1) :
            /\ tokens[c + 1].lo = lo
            /\ \A d \in 0..(c - 1) : tokens[d + 1].lo # lo
    ELSE Len(tokens) - 1

\* the cursor c, the one of EoF when c is past the tokens: the loop of
\* Parser::parse ends at both
AtMostEoF(c) == IF c < Len(tokens) THEN c ELSE Len(tokens) - 1

\* the cursor at which Parser::parse goes on after the statement that
\* starts at cursor c
TreeResume(turn, c) ==
    IF turn.st = "Err" THEN AtMostEoF(synchronize(tokens, turn.cursor + 1))
    ELSE IF turn.st = "Ok" THEN turn.cursor
    ELSE c

\* Parser::declaration up to its call of synchronize
Declared(P) ==
    IF check(P, "Var")
    THEN var_declaration(source, match_token(source, P, "Var"))
    ELSE bcomp_statement(source, P)

\* a turn of the loop of Compiler::compile that synchronises
Synchronising ==
    /\ bpc = "compile"
    /\ ~check(parser, "EoF")
    /\ Declared(parser).panic_mode
    /\ ~Declared(parser).panic

\* the cursor of the token the compiler has as its current one
CompilerCursor(P) ==
    IF P.current.ttype = "EoF" THEN Len(tokens) - 1 ELSE CursorAt(P.sc.start)

\* C32: on the same token stream, a statement with a syntax error that
\* both parsers start at the same token leaves both, after synchronising,
\* at the same token.
C32_SameResume ==
    [][(SameStream /\ Synchronising) =>
          LET c == CompilerCursor(parser)
          IN  /\ statement(tokens, c).st = "Err"
              /\ TreeResume(statement(tokens, c), c) = CompilerCursor(parser')
      ]_vars

\* C33: Parser::parse never indexes the tokens at or past their length: on
\* every token list of the scanner, also one that ends in the middle of a
\* statement, it returns Ok or Err.
C33_ParseInBounds == result # "Panic"

-----------------------------------------------------------------------------
(* Claims about the bounds of the bytecode scanner.                        *)

\* C34: no call of scan_token reads the source at an index at or past its
\* length: the calls return tokens or Error tokens and then EoF.
C34_ScanInBounds == ~scanner.panic

-----------------------------------------------------------------------------
(* Claims about the globals of the VM.                                     *)

\* the VM is about to execute the opcode op, its operand a name
AtNamed(op) ==
    /\ bpc = "run"
    /\ vmIp + 1 < Len(parser.chunk.code)
    /\ OpFrom(parser.chunk.code[vmIp + 1]) = op
    /\ parser.chunk.code[vmIp + 2] < Len(parser.chunk.constants)
    /\ read_constant(parser.chunk, parser.chunk.code[vmIp + 2]).t
           = "ConstString"

\* the name the operand of the opcode at ip stands for
NameAtIp == as_str(read_constant(parser.chunk, parser.chunk.code[vmIp + 2]))

\* the turn of SetGlobal with a value on the stack
SetGlobalTurn ==
    IF NameAtIp \in DOMAIN vmGlobals
    THEN /\ bpc' = "run"
         /\ vmStack' = vmStack
         /\ DOMAIN vmGlobals' = DOMAIN vmGlobals
         /\ vmGlobals'[NameAtIp] = Peek(vmStack, 0)
         /\ \A n \in DOMAIN vmGlobals \ {NameAtIp} :
                vmGlobals'[n] = vmGlobals[n]
    ELSE /\ bpc' = "done"
         /\ bresult' = "Runtime"
         /\ vmGlobals' = vmGlobals

\* the turn of GetGlobal of a name that is not defined
GetUndefinedTurn ==
    /\ bpc' = "done"
    /\ bresult' = "Runtime"
    /\ vmGlobals' = vmGlobals
    /\ vmStack' = vmStack

\* C35: SetGlobal n with a value on the stack stores the top of the stack
\* in globals[n] and leaves the stack as it is when n is defined, and ends
\* the run with a Runtime error and the globals as they are when n is not;
\* GetGlobal n of an undefined n ends the run with a Runtime error and
\* leaves the globals and the stack as they are.
C35_SetGlobal ==
    [][/\ (AtNamed("SetGlobal") /\ vmStack # <<>>) => SetGlobalTurn
       /\ (AtNamed("GetGlobal") /\ NameAtIp \notin DOMAIN vmGlobals)
              => GetUndefinedTurn
      ]_vars

\* a is defined as 1 and SetGlobal has stored true in it, and left it on
\* the stack
C35_Witness ==
    /\ bpc = "run"
    /\ trace # <<>>
    /\ OpFrom(parser.chunk.code[trace[Len(trace)] + 1]) = "SetGlobal"
    /\ <<"a">> \in DOMAIN vmGlobals
    /\ vmGlobals[<<"a">>] = VBool(TRUE)
    /\ vmStack = <<VBool(TRUE)>>

\* the depths at which a frame of the chain of the receiver binds the name
BoundDepths(name) == {d \in 0..(Len(iHeap) - 1) : BoundAt(name, d)}

\* the nearest frame that binds the name, the receiver first; 0 when none
NearestFrame(name) ==
    IF BoundDepths(name) = {} THEN 0
    ELSE FrameAt(iHeap, Len(iHeap),
                 CHOOSE d \in BoundDepths(name) :
                     \A e \in BoundDepths(name) : d <= e)

\* the frames, their parents and the names they bind are as before, and so
\* is every binding but that of the name in frame f
OnlyChanged(f, name) ==
    /\ Len(iHeap') = Len(iHeap)
    /\ \A e \in 1..Len(iHeap) :
          /\ iHeap'[e].parent = iHeap[e].parent
          /\ DOMAIN iHeap'[e].values = DOMAIN iHeap[e].values
          /\ \A n \in DOMAIN iHeap[e].values :
                (e # f \/ n # name) =>
                    iHeap'[e].values[n] = iHeap[e].values[n]

\* C36: update(name, v) gives the binding of name in the nearest frame that
\* binds it the value v, changes no other binding, creates none and
\* returns Some(v); when no frame binds name it returns None and changes
\* nothing.
C36_UpdateNearest ==
    [][\A name \in EnvNames :
         Update(name, LNumber(4, 1)) =>
            IF NearestFrame(name) # 0
            THEN /\ result' = "Some"
                 /\ iRes' = LNumber(4, 1)
                 /\ iHeap'[NearestFrame(name)].values[name] = LNumber(4, 1)
                 /\ OnlyChanged(NearestFrame(name), name)
            ELSE /\ result' = "None"
                 /\ iHeap' = iHeap
      ]_vars

\* update has changed a in the parent's parent of the receiver, where the
\* frames between do not bind a
C36_Witness ==
    /\ pc = "env"
    /\ result = "Some"
    /\ Len(iHeap) = 3
    /\ <<"a">> \notin DOMAIN iHeap[3].values
    /\ <<"a">> \notin DOMAIN iHeap[2].values
    /\ <<"a">> \in DOMAIN iHeap[1].values
    /\ iHeap[1].values[<<"a">>] = LNumber(4, 1)

-----------------------------------------------------------------------------
(* Claims about the indices of the constant pool.                          *)

\* the index of the constant written last
WrittenIndex == Len(parser.chunk.constants) - 1

\* the code write_constant is to give for the index i, and Return
CodeFor(i) ==
    IF i < ByteValues
    THEN <<OpByte("Constant"), i, OpByte("Return")>>
    ELSE <<OpByte("ConstantLong"), i \div ByteValues, i % ByteValues,
           OpByte("Return")>>

\* break_index and long_index are inverse on the indices of two bytes
RoundTrip ==
    \A i \in 0..(ByteValues * ByteValues - 1) :
        /\ break_index(i)[1] \in 0..(ByteValues - 1)
        /\ break_index(i)[2] \in 0..(ByteValues - 1)
        /\ long_index(break_index(i)[1], break_index(i)[2]) = i

\* C37: for an index i below 65536, write_constant emits Constant and the
\* byte i when i < 256 and else ConstantLong and the two bytes of i, the
\* high one first; long_index(break_index(i)) = i; and the VM, executing
\* the instruction, pushes the constant that was written.
C37_ConstantIndex ==
    /\ bpc = "write" => RoundTrip
    /\ (bpc = "run" /\ input.family = "pool") =>
          /\ parser.chunk.code = CodeFor(WrittenIndex)
          /\ read_constant(parser.chunk, WrittenIndex) = input.parts[1]
    /\ (input.family = "pool" /\ Len(trace) = 1) =>
          /\ bpc = "run"
          /\ vmStack = <<input.parts[1]>>
    /\ (input.family = "pool" /\ Len(trace) = 2) => bresult = "Ok"

\* the VM has executed the ConstantLong of the last index of two bytes
C37_Witness ==
    /\ input.family = "pool"
    /\ Len(trace) = 1
    /\ WrittenIndex = ByteValues * ByteValues - 1
    /\ OpFrom(parser.chunk.code[1]) = "ConstantLong"
    /\ parser.chunk.code[2] = ByteValues - 1
    /\ parser.chunk.code[3] = ByteValues - 1
    /\ vmStack = <<VConstString(<<"a">>)>>

-----------------------------------------------------------------------------
(* Claims about the calls and the loop of the tree-path parser.            *)

\* the most arguments a call may have
MaxArguments == 255

\* the token before the first token of the argument is a comma (the
\* arguments of the sources here are literals, one token each)
CommaBefore(argument) ==
    \E c \in 1..(Len(tokens) - 1) :
        /\ tokens[c + 1].location = argument.location
        /\ tokens[c].ttype = "Comma"

\* the arguments of an accepted call statement are at most 255 and each
\* but the first comes after a comma
WellSeparated(s) ==
    (s.k = "Expression" /\ s.expr.k = "Call") =>
        /\ Len(s.expr.arguments) <= MaxArguments
        /\ \A k \in 2..Len(s.expr.arguments) :
               CommaBefore(s.expr.arguments[k])

\* C38: the parser accepts an argument list only when consecutive
\* arguments are separated by a comma and the arguments are at most 255.
C38_CallArguments ==
    (source \in CallSources /\ pc = "resolve") =>
        \A k \in 1..Len(statements) : WellSeparated(statements[k])

\* a turn of the loop of Parser::parse that does not crash
ParseTurn == pc = "parse" /\ pc' = "parse"

\* the turn has pushed one statement or one error, after those there were
OnePushed ==
    \/ /\ Len(statements') = Len(statements) + 1
       /\ SubSeq(statements', 1, Len(statements)) = statements
       /\ parseErrors' = parseErrors
    \/ /\ Len(parseErrors') = Len(parseErrors) + 1
       /\ SubSeq(parseErrors', 1, Len(parseErrors)) = parseErrors
       /\ statements' = statements

\* location a is not after location b
NotAfter(a, b) == a.line < b.line \/ (a.line = b.line /\ a.pos <= b.pos)

\* the errors are in the order of their locations in the source
ErrorsInOrder ==
    \A k \in 1..(Len(parseErrors) - 1) :
        NotAfter(parseErrors[k].location, parseErrors[k + 1].location)

\* the loop of Parser::parse has ended without a crash
ParseReturns == pc = "parse" /\ pc' # "parse" /\ result' # "Panic"

\* C39: on a token list on which the parser does not crash, every turn of
\* the loop of Parser::parse moves the cursor forward and pushes one
\* statement or one error; the errors are in source order; the result is
\* Err when there is an error and else Ok with the statements; and the
\* loop ends.
C39_ParseTerminates ==
    /\ [][ParseTurn => (pCursor' > pCursor /\ OnePushed)]_vars
    /\ [][ParseReturns =>
            /\ UNCHANGED <<statements, parseErrors>>
            /\ IF parseErrors = <<>>
               THEN pc' = "resolve" /\ result' = ""
               ELSE pc' = "done" /\ result' = "Parser"]_vars
    /\ []ErrorsInOrder
    /\ (pc = "parse") ~> (pc # "parse")

\* Parser::parse has returned Err with two errors, after a statement that
\* was parsed
C39_Witness ==
    /\ pc = "done"
    /\ result = "Parser"
    /\ Len(parseErrors) = 2
    /\ Len(statements) = 1

=============================================================================
